---- MODULE Spec2Model ----
(***************************************************************************)
(* DAG workflow execution engine: graph validator, topological planner,    *)
(* and the run orchestrator (WorkflowRunner).                              *)
(*                                                                         *)
(* Node ids are small integers; a node is [id, type]; an edge is           *)
(* [source, target, targetPort] (targetPort 0: none).  An edge endpoint    *)
(* that is not the id of any node of the workflow is a dangling endpoint.  *)
(***************************************************************************)
EXTENDS Integers, Sequences, FiniteSets, TLC

\* ------------------------------------------------------------------ bounds

MaxNodes == 3
MaxEdges == 2

\* ------------------------------------------------------------- sequences

Range(s) == {s[i] : i \in 1..Len(s)}

SeqsUpTo(S, n) == UNION {[1..k -> S] : k \in 0..n}

Contains(s, x) == \E i \in 1..Len(s) : s[i] = x

\* Array.prototype.indexOf: first position of x in s, 0 when absent
IndexOf(s, x) == IF Contains(s, x) THEN CHOOSE i \in 1..Len(s) : s[i] = x /\ \A j \in 1..(i-1) : s[j] # x ELSE 0

\* ----------------------------------------------------------------- graph

Ids == 1..MaxNodes

NodeTypes == {"text", "custom"}

nodeIdsOf(nodes) == {nodes[i].id : i \in 1..Len(nodes)}

\* buildAdjacencyList: per id the targets of its outgoing edges, in edge
\* array order; an id without entry reads as the empty list (|| []).
buildAdjacencyList(nodes, edges) ==
  [id \in Ids |->
     LET out == SelectSeq(edges, LAMBDA e : e.source = id)
     IN [i \in 1..Len(out) |-> out[i].target]]

RECURSIVE hasCycleUtil(_, _, _)
RECURSIVE hasCycleNeighbors(_, _, _, _)

\* hasCycleUtil with the two membership tests in the wrong order
hasCycleUtilVisitedFirst(adjacency, nodeId, st) ==
  IF nodeId \in st.visited THEN [found |-> FALSE, visited |-> st.visited, recursionStack |-> st.recursionStack]
  ELSE IF nodeId \in st.recursionStack THEN [found |-> TRUE, visited |-> st.visited, recursionStack |-> st.recursionStack]
  ELSE LET st1 == [visited |-> st.visited \cup {nodeId}, recursionStack |-> st.recursionStack \cup {nodeId}]
           r == hasCycleNeighbors(adjacency, adjacency[nodeId], 1, st1)
       IN IF r.found THEN r
          ELSE [found |-> FALSE, visited |-> r.visited, recursionStack |-> r.recursionStack \ {nodeId}]

\* hasCycleUtil: st = [visited, recursionStack]; returns st plus found
hasCycleUtil(adjacency, nodeId, st) ==
  IF nodeId \in st.recursionStack THEN [found |-> TRUE, visited |-> st.visited, recursionStack |-> st.recursionStack]
  ELSE IF nodeId \in st.visited THEN [found |-> FALSE, visited |-> st.visited, recursionStack |-> st.recursionStack]
  ELSE LET st1 == [visited |-> st.visited \cup {nodeId}, recursionStack |-> st.recursionStack \cup {nodeId}]
           r == hasCycleNeighbors(adjacency, adjacency[nodeId], 1, st1)
       IN IF r.found THEN r
          ELSE [found |-> FALSE, visited |-> r.visited, recursionStack |-> r.recursionStack \ {nodeId}]

hasCycleNeighbors(adjacency, neighbors, i, st) ==
  IF i > Len(neighbors) THEN [found |-> FALSE, visited |-> st.visited, recursionStack |-> st.recursionStack]
  ELSE LET r == hasCycleUtil(adjacency, neighbors[i], st)
       IN IF r.found THEN r ELSE hasCycleNeighbors(adjacency, neighbors, i + 1, r)

RECURSIVE detectCycleFrom(_, _, _, _)

\* variant: the search starts from the first node only
detectCycleFromFirstNodeOnly(adjacency, nodes, i, st) ==
  IF i > Len(nodes) THEN FALSE
  ELSE hasCycleUtil(adjacency, nodes[i].id, st).found

detectCycleFrom(adjacency, nodes, i, st) ==
  IF i > Len(nodes) THEN FALSE
  ELSE LET r == hasCycleUtil(adjacency, nodes[i].id, st)
       IN IF r.found THEN TRUE ELSE detectCycleFrom(adjacency, nodes, i + 1, r)

detectCycle(nodes, edges) ==
  detectCycleFrom(buildAdjacencyList(nodes, edges), nodes, 1, [visited |-> {}, recursionStack |-> {}])

RECURSIVE findCycleDfs(_, _, _)
RECURSIVE findCycleNeighbors(_, _, _, _)

\* variant: the whole DFS path is reported, not its slice from the repeated node
findCycleDfsWholePath(adjacency, nodeId, st) ==
  IF nodeId \in st.recursionStack THEN
    [found |-> TRUE, cycle |-> Append(st.path, nodeId),
     visited |-> st.visited, recursionStack |-> st.recursionStack, path |-> st.path]
  ELSE IF nodeId \in st.visited THEN
    [found |-> FALSE, cycle |-> <<>>, visited |-> st.visited, recursionStack |-> st.recursionStack, path |-> st.path]
  ELSE LET st1 == [visited |-> st.visited \cup {nodeId},
                   recursionStack |-> st.recursionStack \cup {nodeId},
                   path |-> Append(st.path, nodeId)]
           r == findCycleNeighbors(adjacency, adjacency[nodeId], 1, st1)
       IN IF r.found THEN r
          ELSE [found |-> FALSE, cycle |-> <<>>, visited |-> r.visited,
                recursionStack |-> r.recursionStack \ {nodeId},
                path |-> SubSeq(r.path, 1, Len(r.path) - 1)]

\* findCycle's dfs: st = [visited, recursionStack, path]; cycle is <<>> for null
findCycleDfs(adjacency, nodeId, st) ==
  IF nodeId \in st.recursionStack THEN
    LET cycleStart == IndexOf(st.path, nodeId)
    IN [found |-> TRUE,
        cycle |-> IF cycleStart # 0 THEN Append(SubSeq(st.path, cycleStart, Len(st.path)), nodeId) ELSE <<nodeId>>,
        visited |-> st.visited, recursionStack |-> st.recursionStack, path |-> st.path]
  ELSE IF nodeId \in st.visited THEN
    [found |-> FALSE, cycle |-> <<>>, visited |-> st.visited, recursionStack |-> st.recursionStack, path |-> st.path]
  ELSE LET st1 == [visited |-> st.visited \cup {nodeId},
                   recursionStack |-> st.recursionStack \cup {nodeId},
                   path |-> Append(st.path, nodeId)]
           r == findCycleNeighbors(adjacency, adjacency[nodeId], 1, st1)
       IN IF r.found THEN r
          ELSE [found |-> FALSE, cycle |-> <<>>, visited |-> r.visited,
                recursionStack |-> r.recursionStack \ {nodeId},
                path |-> SubSeq(r.path, 1, Len(r.path) - 1)]

findCycleNeighbors(adjacency, neighbors, i, st) ==
  IF i > Len(neighbors) THEN
    [found |-> FALSE, cycle |-> <<>>, visited |-> st.visited, recursionStack |-> st.recursionStack, path |-> st.path]
  ELSE LET r == findCycleDfs(adjacency, neighbors[i], st)
       IN IF r.found THEN r
          ELSE findCycleNeighbors(adjacency, neighbors, i + 1,
                 [visited |-> r.visited, recursionStack |-> r.recursionStack, path |-> r.path])

RECURSIVE findCycleFrom(_, _, _, _)
findCycleFrom(adjacency, nodes, i, st) ==
  IF i > Len(nodes) THEN <<>>
  ELSE LET r == findCycleDfs(adjacency, nodes[i].id, st)
       IN IF r.found THEN r.cycle
          ELSE findCycleFrom(adjacency, nodes, i + 1,
                 [visited |-> r.visited, recursionStack |-> r.recursionStack, path |-> r.path])

findCycle(nodes, edges) ==
  findCycleFrom(buildAdjacencyList(nodes, edges), nodes, 1,
                [visited |-> {}, recursionStack |-> {}, path |-> <<>>])

\* checkForCycles: the cycle is reported only when hasCycle
checkForCycles(nodes, edges) ==
  IF detectCycle(nodes, edges)
  THEN [hasCycle |-> TRUE, cycle |-> findCycle(nodes, edges)]
  ELSE [hasCycle |-> FALSE, cycle |-> <<>>]

\* nodeMap.get(id): new Map(nodes.map(n => [n.id, n])) keeps the last node of an id
nodeMapGet(nodes, id) ==
  nodes[CHOOSE i \in 1..Len(nodes) : nodes[i].id = id /\ \A j \in (i+1)..Len(nodes) : nodes[j].id # id]

\* variant: the in-degree counted at the source of each edge
initialInDegreeAtSource(nodes, edges) ==
  [id \in Ids |-> Cardinality({i \in 1..Len(edges) : edges[i].source = id})]

\* inDegree after the two forEach loops; an id without entry reads as 0
initialInDegree(nodes, edges) ==
  [id \in Ids |-> Cardinality({i \in 1..Len(edges) : edges[i].target = id})]

RECURSIVE kahnNeighbors(_, _, _, _)
\* kahnNeighbors enqueueing a neighbor that still waits for one more source
kahnNeighborsOffByOne(neighbors, i, inDegree, queue) ==
  IF i > Len(neighbors) THEN [inDegree |-> inDegree, queue |-> queue]
  ELSE LET degree == inDegree[neighbors[i]] - 1
       IN kahnNeighbors(neighbors, i + 1,
            [inDegree EXCEPT ![neighbors[i]] = degree],
            IF degree <= 1 THEN Append(queue, neighbors[i]) ELSE queue)

\* neighbors.forEach: decrement, enqueue on reaching exactly 0
kahnNeighbors(neighbors, i, inDegree, queue) ==
  IF i > Len(neighbors) THEN [inDegree |-> inDegree, queue |-> queue]
  ELSE LET degree == inDegree[neighbors[i]] - 1
       IN kahnNeighbors(neighbors, i + 1,
            [inDegree EXCEPT ![neighbors[i]] = degree],
            IF degree = 0 THEN Append(queue, neighbors[i]) ELSE queue)

RECURSIVE kahnLoop(_, _, _, _, _)
\* variant: the queue is used as a stack (pop instead of shift)
kahnLoopLifo(nodes, adjacency, inDegree, queue, result) ==
  IF queue = <<>> THEN result
  ELSE LET nodeId == queue[Len(queue)]
           result1 == IF nodeId \in nodeIdsOf(nodes) THEN Append(result, nodeMapGet(nodes, nodeId)) ELSE result
           r == kahnNeighbors(adjacency[nodeId], 1, inDegree, SubSeq(queue, 1, Len(queue) - 1))
       IN kahnLoop(nodes, adjacency, r.inDegree, r.queue, result1)

\* while (queue.length > 0): shift, push the node if it exists, visit neighbors
kahnLoop(nodes, adjacency, inDegree, queue, result) ==
  IF queue = <<>> THEN result
  ELSE LET nodeId == Head(queue)
           result1 == IF nodeId \in nodeIdsOf(nodes) THEN Append(result, nodeMapGet(nodes, nodeId)) ELSE result
           r == kahnNeighbors(adjacency[nodeId], 1, inDegree, Tail(queue))
       IN kahnLoop(nodes, adjacency, r.inDegree, r.queue, result1)

\* variant: the nodes in array order, edges ignored
topologicalSortInputOrder(nodes, edges) == [isNull |-> FALSE, nodes |-> nodes]

\* variant: the result is returned without comparing its length to nodes.length
topologicalSortNoLengthCheck(nodes, edges) ==
  LET inDegree == initialInDegree(nodes, edges)
      seedAt == SelectSeq(nodes, LAMBDA n : inDegree[n.id] = 0)
      queue == [i \in 1..Len(seedAt) |-> seedAt[i].id]
  IN [isNull |-> FALSE, nodes |-> kahnLoop(nodes, buildAdjacencyList(nodes, edges), inDegree, queue, <<>>)]

\* topologicalSort: [isNull, nodes]; isNull when the result is shorter than nodes
topologicalSort(nodes, edges) ==
  LET inDegree == initialInDegree(nodes, edges)
      seedAt == SelectSeq(nodes, LAMBDA n : inDegree[n.id] = 0)
      queue == [i \in 1..Len(seedAt) |-> seedAt[i].id]
      result == kahnLoop(nodes, buildAdjacencyList(nodes, edges), inDegree, queue, <<>>)
  IN IF Len(result) = Len(nodes) THEN [isNull |-> FALSE, nodes |-> result]
     ELSE [isNull |-> TRUE, nodes |-> <<>>]

RECURSIVE dedupSources(_, _, _)
\* variant: every edge pushes its source, without the includes() test
dedupSourcesKeepsAll(es, i, deps) ==
  IF i > Len(es) THEN deps
  ELSE dedupSources(es, i + 1, Append(deps, es[i].source))

\* edges.forEach over the edges of one target: push the source unless included
dedupSources(es, i, deps) ==
  IF i > Len(es) THEN deps
  ELSE dedupSources(es, i + 1, IF Contains(deps, es[i].source) THEN deps ELSE Append(deps, es[i].source))

\* buildDependencyMap(edges).get(id) || []
buildDependencyMap(edges, id) ==
  dedupSources(SelectSeq(edges, LAMBDA e : e.target = id), 1, <<>>)

\* an error message: its fixed text and the values interpolated into it
Msg(text) == [text |-> text, cycle |-> <<>>, ms |-> 0, nodeType |-> ""]

\* `Workflow contains a cycle: ${cycle?.join(' -> ') || 'unknown'}`
CycleError(cycle) == [Msg("Workflow contains a cycle: ") EXCEPT !.cycle = cycle]
TopoSortError == Msg("Failed to topologically sort nodes (possible cycle)")

\* buildExecutionPlan
buildExecutionPlan(wf) ==
  LET cyc == checkForCycles(wf.nodes, wf.edges)
      sortedNodes == topologicalSort(wf.nodes, wf.edges)
  IN IF cyc.hasCycle THEN [nodes |-> <<>>, valid |-> FALSE, errors |-> <<CycleError(cyc.cycle)>>]
     ELSE IF sortedNodes.isNull THEN [nodes |-> <<>>, valid |-> FALSE, errors |-> <<TopoSortError>>]
     ELSE [nodes |-> [i \in 1..Len(sortedNodes.nodes) |->
                        [nodeId |-> sortedNodes.nodes[i].id,
                         node |-> sortedNodes.nodes[i],
                         dependencies |-> buildDependencyMap(wf.edges, sortedNodes.nodes[i].id)]],
           valid |-> TRUE, errors |-> <<>>]

RECURSIVE danglingErrors(_, _, _)
\* variant: only the source of an edge is checked
danglingErrorsSourceOnly(nodeIds, edges, i) ==
  IF i > Len(edges) THEN <<>>
  ELSE (IF edges[i].source \notin nodeIds THEN <<[kind |-> "source", edge |-> i, id |-> edges[i].source]>> ELSE <<>>)
       \o danglingErrors(nodeIds, edges, i + 1)

\* edges.forEach: a source error, then a target error, per edge in array order
danglingErrors(nodeIds, edges, i) ==
  IF i > Len(edges) THEN <<>>
  ELSE (IF edges[i].source \notin nodeIds THEN <<[kind |-> "source", edge |-> i, id |-> edges[i].source]>> ELSE <<>>)
       \o (IF edges[i].target \notin nodeIds THEN <<[kind |-> "target", edge |-> i, id |-> edges[i].target]>> ELSE <<>>)
       \o danglingErrors(nodeIds, edges, i + 1)

\* nodes.forEach: a node on no edge, when there is more than one node
isolatedWarnings(nodes, edges) ==
  LET connectedNodes == {edges[i].source : i \in 1..Len(edges)} \cup {edges[i].target : i \in 1..Len(edges)}
      iso == SelectSeq(nodes, LAMBDA n : n.id \notin connectedNodes /\ Len(nodes) > 1)
  IN [i \in 1..Len(iso) |-> [kind |-> "isolated", source |-> iso[i].id, target |-> iso[i].id]]

\* edgeMap.forEach: keys in order of first insertion, those counted more than once
duplicateWarnings(edges) ==
  LET firsts == {i \in 1..Len(edges) :
                   /\ \A j \in 1..(i-1) : ~(edges[j].source = edges[i].source /\ edges[j].target = edges[i].target)
                   /\ \E j \in (i+1)..Len(edges) : edges[j].source = edges[i].source /\ edges[j].target = edges[i].target}
      dup == SelectSeq([i \in 1..Len(edges) |-> [at |-> i, e |-> edges[i]]], LAMBDA x : x.at \in firsts)
  IN [i \in 1..Len(dup) |-> [kind |-> "duplicate", source |-> dup[i].e.source, target |-> dup[i].e.target]]

ValidatorCycleError == [kind |-> "cycle", edge |-> 0, id |-> 0]

\* validateWorkflowDAG
validateWorkflowDAG(nodes, edges) ==
  LET errors == (IF detectCycle(nodes, edges) THEN <<ValidatorCycleError>> ELSE <<>>)
                \o danglingErrors(nodeIdsOf(nodes), edges, 1)
      warnings == isolatedWarnings(nodes, edges) \o duplicateWarnings(edges)
  IN [valid |-> Len(errors) = 0, errors |-> errors, warnings |-> warnings]

\* -------------------------------------------------------------- registry

TextExecutor == "textExecutor"
NoExecutor == "null"

\* the handlers a test registers besides the built-in one
Executors == {TextExecutor, "mockExecutor", "overrideExecutor"}

\* variant: a tag that already has a handler keeps it
registerNodeKeepsFirst(registry, nodeType, executor) ==
  IF registry[nodeType] = NoExecutor THEN [registry EXCEPT ![nodeType] = executor] ELSE registry

\* registerNode: nodeRegistry.set(nodeType, {type, executor, description})
registerNode(registry, nodeType, executor) == [registry EXCEPT ![nodeType] = executor]

\* variant: an unregistered tag falls back to the text handler
getNodeExecutorFallback(registry, nodeType) ==
  IF registry[nodeType] = NoExecutor THEN TextExecutor ELSE registry[nodeType]

\* getNodeExecutor: registered?.executor ?? null
getNodeExecutor(registry, nodeType) == registry[nodeType]

\* the registry after the module-level registerNode('text', ...) call; "custom" has no handler
BuiltinRegistry == registerNode([t \in NodeTypes |-> NoExecutor], "text", TextExecutor)

\* --------------------------------------------------------- input resolver

\* variant: a key already present keeps its value
ObjectAssignKeepsTarget(target, source) ==
  [k \in (DOMAIN target) \cup (DOMAIN source) |-> IF k \in DOMAIN target THEN target[k] ELSE source[k]]

\* Object.assign(target, source) / {...target, ...source}
ObjectAssign(target, source) ==
  [k \in (DOMAIN target) \cup (DOMAIN source) |-> IF k \in DOMAIN source THEN source[k] ELSE target[k]]

EmptyRecord == [k \in {} |-> 0]

JsNull == -1

\* completedNodes.find(n => n.nodeId === id): position of the first, 0 when none
findCompleted(completedNodes, id) ==
  IF \E i \in 1..Len(completedNodes) : completedNodes[i].nodeId = id
  THEN CHOOSE i \in 1..Len(completedNodes) :
         completedNodes[i].nodeId = id /\ \A j \in 1..(i-1) : completedNodes[j].nodeId # id
  ELSE 0

\* variant: the last port with the id instead of the first
findPortLast(ports, portId) ==
  IF \E i \in 1..Len(ports) : ports[i].id = portId
  THEN CHOOSE i \in 1..Len(ports) : ports[i].id = portId /\ \A j \in (i+1)..Len(ports) : ports[j].id # portId
  ELSE 0

\* ports.find(p => p.id === targetPortId): position of the first, 0 when none
findPort(ports, portId) ==
  IF \E i \in 1..Len(ports) : ports[i].id = portId
  THEN CHOOSE i \in 1..Len(ports) : ports[i].id = portId /\ \A j \in 1..(i-1) : ports[j].id # portId
  ELSE 0

\* variant: a scoped edge whose source has no recorded output still writes null
resolveEdgeNullForMissingSource(inputs, edge, completedNodes, ports) ==
  LET at == findCompleted(completedNodes, edge.source)
      p == findPort(ports, edge.targetPort)
  IN IF edge.targetPort # 0
     THEN IF p # 0 /\ ports[p].label # ""
          THEN ObjectAssign(inputs,
                 [k \in {ports[p].label} |->
                    IF at # 0 /\ k \in DOMAIN completedNodes[at].output THEN completedNodes[at].output[k] ELSE JsNull])
          ELSE inputs
     ELSE IF at = 0 THEN inputs ELSE ObjectAssign(inputs, completedNodes[at].output)

\* the body of the for loop over incomingEdges
resolveEdge(inputs, edge, completedNodes, ports) ==
  LET at == findCompleted(completedNodes, edge.source)
      p == findPort(ports, edge.targetPort)
  IN IF at = 0 THEN inputs
     ELSE IF edge.targetPort # 0
          THEN IF p # 0 /\ ports[p].label # ""
               THEN ObjectAssign(inputs,
                      [k \in {ports[p].label} |->
                         IF k \in DOMAIN completedNodes[at].output THEN completedNodes[at].output[k] ELSE JsNull])
               ELSE inputs
          ELSE ObjectAssign(inputs, completedNodes[at].output)

RECURSIVE resolveEdges(_, _, _, _, _)
resolveEdges(inputs, incomingEdges, i, completedNodes, ports) ==
  IF i > Len(incomingEdges) THEN inputs
  ELSE resolveEdges(resolveEdge(inputs, incomingEdges[i], completedNodes, ports),
                    incomingEdges, i + 1, completedNodes, ports)

\* resolveNodeInputs
resolveNodeInputs(context, completedNodes, edges, ports) ==
  resolveEdges(EmptyRecord, SelectSeq(edges, LAMBDA e : e.target = context.nodeId), 1, completedNodes, ports)

\* ---------------------------------------------------------------- runner

RunNodes == 2
RunEdges == 2
DefaultTimeoutMs == 30000
ShortTimeoutMs == 50
RunnerNodeId == 0

\* nodeId of the synthetic result of the index-th planning error: `error-${index}`
ErrorNodeId(index) == 0 - (index + 1)

EventTypes == {"queued", "running", "succeeded", "failed"}

VARIABLES
  workflow,        \* the Workflow handed to the pure functions or to the runner
  planOut,         \* result of an applied buildExecutionPlan (at most one)
  cyclesOut,       \* result of an applied checkForCycles (at most one)
  validationOut,   \* result of an applied validateWorkflowDAG (at most one)
  config,          \* RunnerConfig: timeoutMs, and on which events onEvent throws
  nodeRegistry,    \* the process-wide registry: type tag -> executor
  pc,              \* position of run() / executeNode()
  plan,            \* run()'s plan (at most one)
  idx,             \* position of the for loop over plan.nodes
  results,         \* this.results: insertion-ordered map, as a sequence of RunResult
  completedNodes,  \* this.completedNodes
  logs,            \* this.logs: nodeId -> lines
  events,          \* the events handed to config.onEvent, in order
  invoked,         \* the executor invocations, in order: [nodeId, inputs, executor]
  inflight,        \* promises and timers created by executeWithTimeout, not yet settled
  thrown,          \* the value caught by a catch block (at most one)
  output,          \* the output awaited from executeWithTimeout (at most one)
  ret,             \* the WorkflowExecution run() resolved with (at most one)
  escaped,         \* TRUE when run() rejected instead of resolving
  registerCalls,   \* the registerNode calls made so far, in order: [nodeType, executor]
  resolveIn,       \* the arguments handed to resolveNodeInputs
  inputsOut,       \* result of an applied resolveNodeInputs (at most one)
  clock,           \* Date.now()
  executionIds,    \* the executionId of every WorkflowRunner constructed so far, in order
  peer,            \* the instance fields of a second WorkflowRunner, suspended at an await
  active,          \* which of the two instances the variables above belong to (1 or 2)
  builder,         \* useWorkflowBuilder: the state after every queued setState
  rendered,        \* useWorkflowBuilder: the state of the last render, seen by the callbacks
  depsChanged,     \* workflow, nodes, edges or ports were replaced since the last render
  timers,          \* pending setTimeout callbacks: [id, closure]
  autoSaveTimeoutRef,  \* autoSaveTimeoutRef.current (0 for null)
  saved,           \* the argument of the last saveWorkflow call (at most one)
  nextId,          \* generateId: the next node id and the next edge id
  issued,          \* how many builder actions were issued so far
  addEdgeOut,      \* the latest addEdge call and what it returned (at most one)
  storage,         \* localStorage (or the in-memory fallback): key -> stored JSON document
  lastSaved,       \* per workflow id: the argument of its latest saveWorkflow not yet deleted or cleared
  rateLimitStore,  \* the run endpoint's rateLimitStore: own properties, identifier -> [count, resetTime]
  inheritedCount,  \* the count property of the values rateLimitStore inherits from Object.prototype
  rateWindow,      \* per identifier: start of its current window and the calls allowed in it
  rateOut,         \* the latest checkRateLimit call and what it returned (at most one)
  invocation       \* which call of run() on the instance this is, and what the instance held when it began

vars == <<workflow, planOut, cyclesOut, validationOut, config, nodeRegistry, pc, plan, idx, results,
          completedNodes, logs, events, invoked, inflight, thrown, output, ret, escaped,
          registerCalls, resolveIn, inputsOut, clock, executionIds, peer, active,
          builder, rendered, depsChanged, timers, autoSaveTimeoutRef, saved, nextId, issued, addEdgeOut,
          storage, lastSaved, rateLimitStore, inheritedCount, rateWindow, rateOut, invocation>>

builderVars == <<builder, rendered, depsChanged, timers, autoSaveTimeoutRef, saved, nextId, issued, addEdgeOut>>

storageVars == <<storage, lastSaved>>
rateVars == <<rateLimitStore, inheritedCount, rateWindow, rateOut>>
hostVars == <<storageVars, rateVars>>

auxVars == <<registerCalls, resolveIn, inputsOut, clock, executionIds, peer, active, builderVars, hostVars,
            invocation>>

planVars == <<planOut, cyclesOut, validationOut>>
runnerVars == <<config, nodeRegistry, pc, plan, idx, results, completedNodes, logs, events, invoked,
                inflight, thrown, output, ret, escaped>>

Edge(s, t) == [source |-> s, target |-> t, targetPort |-> 0]
EdgeSet == {Edge(s, t) : s \in Ids, t \in Ids}

\* every node list and edge list the boundary guard admits (arrays), duplicate
\* ids and dangling endpoints included
\* (ids are compared for equality only, so a node list introduces them as 1, 2, ...)
IdsInOrderOfAppearance(ids) ==
  \A i \in 1..Len(ids) : \A k \in 1..(ids[i] - 1) : \E j \in 1..(i-1) : ids[j] = k

PlanWorkflows ==
  {[nodes |-> [i \in 1..Len(ids) |-> [id |-> ids[i], type |-> "text"]], edges |-> es, ports |-> <<>>] :
     ids \in {s \in SeqsUpTo(Ids, MaxNodes) : IdsInOrderOfAppearance(s)}, es \in SeqsUpTo(EdgeSet, MaxEdges)}

\* workflows of nodes 1..n with unique ids (data model), any types, any edges
RunnerWorkflows ==
  UNION {{[nodes |-> [i \in 1..n |-> [id |-> i, type |-> ty[i]]], edges |-> es, ports |-> <<>>] :
            ty \in [1..n -> NodeTypes], es \in SeqsUpTo(EdgeSet, RunEdges)} : n \in 0..RunNodes}

\* constructor: {timeoutMs: 30000, concurrency: 1, ...config}
RunnerConfigs == {[timeoutMs |-> t, throwOn |-> th] : t \in {0, ShortTimeoutMs}, th \in SUBSET EventTypes}

RunnerIdle ==
  /\ nodeRegistry = BuiltinRegistry
  /\ pc = "idle"
  /\ plan = <<>>
  /\ idx = 0
  /\ results = <<>>
  /\ completedNodes = <<>>
  /\ logs = [id \in Ids |-> <<>>]
  /\ events = <<>>
  /\ invoked = <<>>
  /\ inflight = {}
  /\ thrown = <<>>
  /\ output = <<>>
  /\ ret = <<>>
  /\ escaped = FALSE

\* the instance fields of a WorkflowRunner on which run() was not called yet
IdleRunner ==
  [pc |-> "idle", plan |-> <<>>, idx |-> 0, results |-> <<>>, completedNodes |-> <<>>,
   logs |-> [id \in Ids |-> <<>>], events |-> <<>>, invoked |-> <<>>, inflight |-> {},
   thrown |-> <<>>, output |-> <<>>, ret |-> <<>>, escaped |-> FALSE]

\* const initialState: WorkflowBuilderState
initialState ==
  [loaded |-> FALSE, nodes |-> <<>>, edges |-> <<>>, ports |-> <<>>,
   selectedNodeIds |-> {}, selectedEdgeIds |-> {}, isDirty |-> FALSE]

\* the hook after its first render: useState(initialState), useRef(null)
BuilderIdle ==
  /\ builder = initialState
  /\ rendered = initialState
  /\ depsChanged = FALSE
  /\ timers = {}
  /\ autoSaveTimeoutRef = 0
  /\ saved = <<>>
  /\ nextId = [node |-> 1, edge |-> 1]
  /\ issued = 0
  /\ addEdgeOut = <<>>

\* nothing beyond the module-level registration has happened
\* the first call of run() on a new instance: the instance fields are empty
FirstInvocation == [n |-> 1, completedBefore |-> 0, invokedBefore |-> 0]

\* nothing was stored and no request was counted yet, run() was not called twice
HostIdle ==
  /\ storage = [k \in {} |-> <<>>]
  /\ lastSaved = [id \in {} |-> <<>>]
  /\ rateLimitStore = [k \in {} |-> <<>>]
  /\ inheritedCount = "undefined"
  /\ rateWindow = [k \in {} |-> <<>>]
  /\ rateOut = <<>>
  /\ invocation = FirstInvocation

AuxIdle ==
  /\ BuilderIdle
  /\ HostIdle
  /\ peer = IdleRunner
  /\ active = 1
  /\ registerCalls = <<[nodeType |-> "text", executor |-> TextExecutor]>>
  /\ resolveIn = <<>>
  /\ inputsOut = <<>>
  /\ clock = 0
  /\ executionIds = <<>>

PlanIdle ==
  /\ planOut = <<>>
  /\ cyclesOut = <<>>
  /\ validationOut = <<>>

\* --------------------- pure functions, one applied to the drawn workflow

InitPlan ==
  /\ workflow \in PlanWorkflows
  /\ config = [timeoutMs |-> 0, throwOn |-> {}]
  /\ PlanIdle
  /\ RunnerIdle
  /\ AuxIdle

ApplyBuildExecutionPlan ==
  /\ PlanIdle
  /\ planOut' = <<buildExecutionPlan(workflow)>>
  /\ UNCHANGED <<workflow, cyclesOut, validationOut, runnerVars, auxVars>>

ApplyCheckForCycles ==
  /\ PlanIdle
  /\ cyclesOut' = <<checkForCycles(workflow.nodes, workflow.edges)>>
  /\ UNCHANGED <<workflow, planOut, validationOut, runnerVars, auxVars>>

ApplyValidateWorkflowDAG ==
  /\ PlanIdle
  /\ validationOut' = <<validateWorkflowDAG(workflow.nodes, workflow.edges)>>
  /\ UNCHANGED <<workflow, planOut, cyclesOut, runnerVars, auxVars>>

NextPlan == ApplyBuildExecutionPlan \/ ApplyCheckForCycles \/ ApplyValidateWorkflowDAG

SpecPlan == InitPlan /\ [][NextPlan]_vars

\* ------------------------------------- the registry under registerNode calls

MaxRegisterCalls == 3

EmptyWorkflow == [nodes |-> <<>>, edges |-> <<>>, ports |-> <<>>]

InitRegistry ==
  /\ workflow = EmptyWorkflow
  /\ config = [timeoutMs |-> 0, throwOn |-> {}]
  /\ PlanIdle
  /\ RunnerIdle
  /\ AuxIdle

\* a registerNode(nodeType, executor) call
RegisterNode ==
  /\ Len(registerCalls) < 1 + MaxRegisterCalls
  /\ \E t \in NodeTypes, e \in Executors :
       /\ nodeRegistry' = registerNode(nodeRegistry, t, e)
       /\ registerCalls' = Append(registerCalls, [nodeType |-> t, executor |-> e])
  /\ UNCHANGED <<workflow, planVars, config, pc, plan, idx, results, completedNodes, logs, events, invoked,
                 inflight, thrown, output, ret, escaped, resolveIn, inputsOut, clock, executionIds, peer, active, builderVars, hostVars, invocation>>

NextRegistry == RegisterNode

SpecRegistry == InitRegistry /\ [][NextRegistry]_vars

\* ------------------------------------------ resolveNodeInputs on drawn inputs

MaxResolveEdges == 2
MaxPorts == 2

\* the node whose inputs are resolved, and the possible sources of its edges
ResolveTarget == MaxNodes
ResolveSources == Ids \ {ResolveTarget}

OutputKeys == {"value1", "value2"}
PortLabels == {"", "value1"}

\* the output records a source may have recorded: any subset of the keys, the
\* values of different sources differ
OutputsOf(nodeId) == UNION {[K -> {nodeId}] : K \in SUBSET OutputKeys}

\* completed outputs: at most one entry per source, in any order
CompletedLists ==
  {c \in UNION {[1..k -> UNION {{[nodeId |-> n, output |-> o] : o \in OutputsOf(n)} : n \in ResolveSources}] :
                k \in 0..2} :
     \A i \in 1..Len(c) : \A j \in 1..Len(c) : c[i].nodeId = c[j].nodeId => i = j}

\* edges into the target or into another node, unscoped (0) or naming a port id
ResolveEdgeSet ==
  {[source |-> src, target |-> t, targetPort |-> tp] :
     src \in ResolveSources, t \in {ResolveTarget, ResolveTarget - 1}, tp \in 0..MaxPorts}

PortLists == SeqsUpTo({[id |-> i, label |-> l] : i \in 1..MaxPorts, l \in PortLabels}, MaxPorts)

ResolveInputs ==
  {[context |-> [nodeId |-> ResolveTarget, node |-> [id |-> ResolveTarget, type |-> "text"],
                 dependencies |-> buildDependencyMap(es, ResolveTarget)],
    completedNodes |-> c, edges |-> es, ports |-> ps] :
     c \in CompletedLists, es \in SeqsUpTo(ResolveEdgeSet, MaxResolveEdges), ps \in PortLists}

InitResolve ==
  /\ workflow = EmptyWorkflow
  /\ config = [timeoutMs |-> 0, throwOn |-> {}]
  /\ PlanIdle
  /\ RunnerIdle
  /\ BuilderIdle
  /\ HostIdle
  /\ peer = IdleRunner
  /\ active = 1
  /\ registerCalls = <<[nodeType |-> "text", executor |-> TextExecutor]>>
  /\ resolveIn \in {<<x>> : x \in ResolveInputs}
  /\ inputsOut = <<>>
  /\ clock = 0
  /\ executionIds = <<>>

\* a call resolveNodeInputs(context, completedNodes, edges, ports)
ApplyResolveNodeInputs ==
  /\ inputsOut = <<>>
  /\ inputsOut' = <<resolveNodeInputs(resolveIn[1].context, resolveIn[1].completedNodes,
                                       resolveIn[1].edges, resolveIn[1].ports)>>
  /\ UNCHANGED <<workflow, planVars, runnerVars, registerCalls, resolveIn, clock, executionIds, peer, active, builderVars, hostVars, invocation>>

NextResolve == ApplyResolveNodeInputs

SpecResolve == InitResolve /\ [][NextResolve]_vars

\* ------------------------------------------- constructing WorkflowRunners

MaxClock == 2
MaxRunners == 3
MaxRandom == 2

\* a value of Math.random(), written in base 36: the first seven digits after
\* the point, and the digits that follow them
RandomValues == {[head |-> h, tail |-> t] : h \in 1..MaxRandom, t \in 1..MaxRandom}

\* Math.random().toString(36).substring(2, 9)
randomSuffix(r) == r.head

\* generateExecutionId: `exec-${Date.now()}-${suffix}`
generateExecutionId(now, r) == [ms |-> now, suffix |-> randomSuffix(r)]

InitIds ==
  /\ workflow = EmptyWorkflow
  /\ config = [timeoutMs |-> 0, throwOn |-> {}]
  /\ PlanIdle
  /\ RunnerIdle
  /\ AuxIdle

\* new WorkflowRunner(workflow): this.executionId = generateExecutionId()
ConstructRunner ==
  /\ Len(executionIds) < MaxRunners
  /\ \E r \in RandomValues : executionIds' = Append(executionIds, generateExecutionId(clock, r))
  /\ UNCHANGED <<workflow, planVars, runnerVars, registerCalls, resolveIn, inputsOut, clock, peer, active, builderVars, hostVars, invocation>>

\* a millisecond passes
Tick ==
  /\ clock < MaxClock
  /\ clock' = clock + 1
  /\ UNCHANGED <<workflow, planVars, runnerVars, registerCalls, resolveIn, inputsOut, executionIds, peer, active, builderVars, hostVars, invocation>>

NextIds == ConstructRunner \/ Tick

SpecIds == InitIds /\ [][NextIds]_vars

\* ------------------------------------------------------- WorkflowRunner

\* a thrown value: an Error (message, optional string code) or anything else
\* (hasCode: 'code' in error; codeIsString: typeof code === 'string')
ErrorValue(msg) == [isError |-> TRUE, message |-> msg, hasCode |-> FALSE, codeIsString |-> FALSE, code |-> ""]

\* an Error carrying a code property, e.g. Object.assign(new Error(msg), {code})
CodedError(msg, isString, code) ==
  [isError |-> TRUE, message |-> msg, hasCode |-> TRUE, codeIsString |-> isString, code |-> code]

\* a thrown value that is not an Error, e.g. throw {message, code}
NonErrorValue(msg, code) ==
  [isError |-> FALSE, message |-> msg, hasCode |-> TRUE, codeIsString |-> TRUE, code |-> code]

ListenerError == ErrorValue(Msg("listener threw"))
NoExecutorError(nodeType) == ErrorValue([Msg("No executor registered for node type: ") EXCEPT !.nodeType = nodeType])
TimeoutError(timeoutMs) == ErrorValue([Msg("Execution timeout after ms") EXCEPT !.ms = timeoutMs])

\* what a registered handler may reject with
ExecutorErrors ==
  {ErrorValue(Msg("Deliberate test error")),
   CodedError(Msg("Deliberate test error"), TRUE, "CUSTOM_ERROR"),
   CodedError(Msg("Deliberate test error"), FALSE, "42"),
   NonErrorValue(Msg("Deliberate test error"), "CUSTOM_ERROR")}

\* error instanceof Error ? error.message : 'Unknown error'
errorMessage(error) == IF error.isError THEN error.message ELSE Msg("Unknown error")

\* variant: the code property of whatever was thrown, Error or not
errorCodeOfAnyThrown(error) ==
  IF error.hasCode
  THEN IF error.codeIsString THEN error.code ELSE "EXECUTION_ERROR"
  ELSE "EXECUTION_ERROR"

\* the errorCode closure of executeNode's catch block
errorCode(error) ==
  IF error.isError /\ error.hasCode
  THEN IF error.codeIsString THEN error.code ELSE "EXECUTION_ERROR"
  ELSE "EXECUTION_ERROR"

\* variant: the configured value without the fallback
effectiveTimeoutMsNoDefault(cfg) == cfg.timeoutMs

\* this.config.timeoutMs || 30000
effectiveTimeoutMs(cfg) == IF cfg.timeoutMs = 0 THEN DefaultTimeoutMs ELSE cfg.timeoutMs

\* the built-in text handler: {content: nodeData.content || '', label: nodeData.label || 'Text Node', ...inputs}
\* (label `Node ${id}` is written id, the empty content 0)
textExecutorOutput(nodeId, inputs) == ObjectAssign([content |-> 0, label |-> nodeId], inputs)

\* Map.prototype.has / get / set on this.results (a set keeps the key's first position)
resultsHas(m, nodeId) == \E i \in 1..Len(m) : m[i].nodeId = nodeId
resultsGet(m, nodeId) == m[CHOOSE i \in 1..Len(m) : m[i].nodeId = nodeId]
resultsSet(m, nodeId, r) ==
  IF resultsHas(m, nodeId) THEN [i \in 1..Len(m) |-> IF m[i].nodeId = nodeId THEN r ELSE m[i]]
  ELSE Append(m, r)

RunResult(nodeId, status, out, err) == [nodeId |-> nodeId, status |-> status, output |-> out, error |-> err]

\* variant: the results map initialised in the workflow's node-array order
initResultsInNodeOrder(m, contexts, i) ==
  [k \in 1..Len(workflow.nodes) |-> RunResult(workflow.nodes[k].id, "pending", <<>>, <<>>)]

RECURSIVE initResults(_, _, _)
\* for (const context of plan.nodes) this.results.set(context.nodeId, {status: 'pending'})
initResults(m, contexts, i) ==
  IF i > Len(contexts) THEN m
  ELSE initResults(resultsSet(m, contexts[i].nodeId, RunResult(contexts[i].nodeId, "pending", <<>>, <<>>)),
                   contexts, i + 1)

WorkflowExecution(status, rs) ==
  [workflowId |-> "test-workflow", executionId |-> "exec", status |-> status, results |-> rs,
   startedAt |-> "startedAt", completedAt |-> "completedAt"]

\* the return of run() for an invalid plan: one synthetic result per error string
planErrorExecution(errors) ==
  WorkflowExecution("error",
    [i \in 1..Len(errors) |->
       RunResult(ErrorNodeId(i - 1), "error", <<>>, <<[message |-> errors[i], code |-> "PLAN_ERROR"]>>)])

\* variant: the catch block returning the node results next to the runner result
runnerErrorExecutionWithResults(error) ==
  WorkflowExecution("error",
    Append(results, RunResult(RunnerNodeId, "error", <<>>, <<[message |-> errorMessage(error), code |-> "RUNNER_ERROR"]>>)))

\* the return of run()'s catch block
runnerErrorExecution(error) ==
  WorkflowExecution("error",
    <<RunResult(RunnerNodeId, "error", <<>>, <<[message |-> errorMessage(error), code |-> "RUNNER_ERROR"]>>)>>)

\* variant: error only when every result is error
finalExecutionEvery(m) ==
  WorkflowExecution(IF \A i \in 1..Len(m) : m[i].status = "error" THEN "error" ELSE "success", m)

\* the normal return of run()
finalExecution(m) ==
  WorkflowExecution(IF \E i \in 1..Len(m) : m[i].status = "error" THEN "error" ELSE "success", m)

\* config.onEvent(event) throws on the event types in throwOn
listenerThrows(cfg, status) == status \in cfg.throwOn

context == plan[1].nodes[idx]

InitRun ==
  /\ workflow \in RunnerWorkflows
  /\ config \in RunnerConfigs
  /\ PlanIdle
  /\ RunnerIdle
  /\ AuxIdle

\* variant: run() without the plan.valid check
RunStartIgnoresValidity ==
  /\ pc = "idle"
  /\ LET p == buildExecutionPlan(workflow)
     IN /\ plan' = <<p>>
        /\ results' = initResults(results, p.nodes, 1)
        /\ idx' = 1
        /\ pc' = "loop"
  /\ UNCHANGED <<workflow, auxVars, planVars, config, nodeRegistry, completedNodes, logs, events, invoked,
                 inflight, thrown, output, ret, escaped>>

\* run(): buildExecutionPlan, the invalid-plan return, the results initialisation
RunStart ==
  /\ pc = "idle"
  /\ LET p == buildExecutionPlan(workflow)
     IN /\ plan' = <<p>>
        /\ IF ~p.valid
           THEN /\ ret' = <<planErrorExecution(p.errors)>>
                /\ pc' = "returned"
                /\ UNCHANGED <<results, idx>>
           ELSE /\ results' = initResults(results, p.nodes, 1)
                /\ idx' = 1
                /\ pc' = "loop"
                /\ UNCHANGED ret
  /\ UNCHANGED <<workflow, auxVars, planVars, config, nodeRegistry, completedNodes, logs, events, invoked,
                 inflight, thrown, output, escaped>>

\* executeNode: emitEvent(queued); a throwing listener lands in the catch block
EmitQueued ==
  /\ pc = "loop"
  /\ idx <= Len(plan[1].nodes)
  /\ events' = Append(events, [nodeId |-> context.nodeId, status |-> "queued"])
  /\ IF listenerThrows(config, "queued")
     THEN thrown' = <<ListenerError>> /\ pc' = "catch"
     ELSE thrown' = thrown /\ pc' = "queued"
  /\ UNCHANGED <<workflow, auxVars, planVars, config, nodeRegistry, plan, idx, results, completedNodes, logs,
                 invoked, inflight, output, ret, escaped>>

\* executeNode: results.set(running); emitEvent(running)
EmitRunning ==
  /\ pc = "queued"
  /\ results' = resultsSet(results, context.nodeId,
                  [(IF resultsHas(results, context.nodeId) THEN resultsGet(results, context.nodeId)
                    ELSE RunResult(context.nodeId, "pending", <<>>, <<>>)) EXCEPT !.status = "running"])
  /\ events' = Append(events, [nodeId |-> context.nodeId, status |-> "running"])
  /\ IF listenerThrows(config, "running")
     THEN thrown' = <<ListenerError>> /\ pc' = "catch"
     ELSE thrown' = thrown /\ pc' = "running"
  /\ UNCHANGED <<workflow, auxVars, planVars, config, nodeRegistry, plan, idx, completedNodes, logs,
                 invoked, inflight, output, ret, escaped>>

\* variant: the executor is started but not awaited, the loop moves on
DispatchNoAwait ==
  /\ pc = "running"
  /\ LET inputs == resolveNodeInputs(context, completedNodes, workflow.edges, workflow.ports)
         executor == getNodeExecutor(nodeRegistry, context.node.type)
     IN IF executor = NoExecutor
        THEN /\ thrown' = <<NoExecutorError(context.node.type)>>
             /\ pc' = "catch"
             /\ UNCHANGED <<invoked, inflight, idx>>
        ELSE /\ invoked' = Append(invoked, [nodeId |-> context.nodeId, inputs |-> inputs, executor |-> executor])
             /\ inflight' = inflight \cup {[call |-> Len(invoked) + 1, kind |-> "executor"],
                                           [call |-> Len(invoked) + 1, kind |-> "timer"]}
             /\ pc' = "loop"
             /\ idx' = idx + 1
             /\ UNCHANGED thrown
  /\ UNCHANGED <<workflow, auxVars, planVars, config, nodeRegistry, plan, results, completedNodes, logs,
                 events, output, ret, escaped>>

\* executeNode: resolveNodeInputs, getNodeExecutor, then executeWithTimeout
\* starts the executor and the timer and the function suspends on their race
Dispatch ==
  /\ pc = "running"
  /\ LET inputs == resolveNodeInputs(context, completedNodes, workflow.edges, workflow.ports)
         executor == getNodeExecutor(nodeRegistry, context.node.type)
     IN IF executor = NoExecutor
        THEN /\ thrown' = <<NoExecutorError(context.node.type)>>
             /\ pc' = "catch"
             /\ UNCHANGED <<invoked, inflight>>
        ELSE /\ invoked' = Append(invoked, [nodeId |-> context.nodeId, inputs |-> inputs, executor |-> executor])
             /\ inflight' = inflight \cup {[call |-> Len(invoked) + 1, kind |-> "executor"],
                                           [call |-> Len(invoked) + 1, kind |-> "timer"]}
             /\ pc' = "await"
             /\ UNCHANGED thrown
  /\ UNCHANGED <<workflow, auxVars, planVars, config, nodeRegistry, plan, idx, results, completedNodes, logs,
                 events, output, ret, escaped>>

\* Promise.race: the executor's promise resolves first
ExecutorResolves ==
  /\ pc = "await"
  /\ inflight' = inflight \ {[call |-> Len(invoked), kind |-> "executor"]}
  /\ output' = <<textExecutorOutput(context.nodeId, invoked[Len(invoked)].inputs)>>
  /\ pc' = "success"
  /\ UNCHANGED <<workflow, auxVars, planVars, config, nodeRegistry, plan, idx, results, completedNodes, logs,
                 events, invoked, thrown, ret, escaped>>

\* Promise.race: the executor's promise rejects first
ExecutorRejects ==
  /\ pc = "await"
  /\ inflight' = inflight \ {[call |-> Len(invoked), kind |-> "executor"]}
  /\ \E e \in ExecutorErrors : thrown' = <<e>>
  /\ pc' = "catch"
  /\ UNCHANGED <<workflow, auxVars, planVars, config, nodeRegistry, plan, idx, results, completedNodes, logs,
                 events, invoked, output, ret, escaped>>

\* Promise.race: the timer fires first and rejects
TimerFires ==
  /\ pc = "await"
  /\ inflight' = inflight \ {[call |-> Len(invoked), kind |-> "timer"]}
  /\ thrown' = <<TimeoutError(effectiveTimeoutMs(config))>>
  /\ pc' = "catch"
  /\ UNCHANGED <<workflow, auxVars, planVars, config, nodeRegistry, plan, idx, results, completedNodes, logs,
                 events, invoked, output, ret, escaped>>

\* variant: a late executor settlement is still recorded as a completed output
LateSettleRecordsOutput ==
  /\ pc \in {"await", "returned"}
  /\ \E p \in inflight :
       /\ ~(pc = "await" /\ p.call = Len(invoked))
       /\ inflight' = inflight \ {p}
       /\ completedNodes' =
            IF p.kind = "executor"
            THEN Append(completedNodes,
                        [nodeId |-> invoked[p.call].nodeId,
                         output |-> textExecutorOutput(invoked[p.call].nodeId, invoked[p.call].inputs)])
            ELSE completedNodes
  /\ UNCHANGED <<workflow, auxVars, planVars, config, nodeRegistry, pc, plan, idx, results, logs,
                 events, invoked, thrown, output, ret, escaped>>

\* the loser of an earlier race settles: the executor resolves or rejects late,
\* or the never-cleared timer fires; no code of the runner is attached to it
LateSettle ==
  /\ pc \in {"await", "returned"}
  /\ \E p \in inflight :
       /\ ~(pc = "await" /\ p.call = Len(invoked))
       /\ inflight' = inflight \ {p}
  /\ UNCHANGED <<workflow, auxVars, planVars, config, nodeRegistry, pc, plan, idx, results, completedNodes, logs,
                 events, invoked, thrown, output, ret, escaped>>

\* executeNode after the await: completedNodes.push, results.set(success), emitEvent(succeeded)
RecordSuccess ==
  /\ pc = "success"
  /\ completedNodes' = Append(completedNodes, [nodeId |-> context.nodeId, output |-> output[1]])
  /\ results' = resultsSet(results, context.nodeId, RunResult(context.nodeId, "success", output, <<>>))
  /\ events' = Append(events, [nodeId |-> context.nodeId, status |-> "succeeded"])
  /\ output' = <<>>
  /\ IF listenerThrows(config, "succeeded")
     THEN thrown' = <<ListenerError>> /\ pc' = "catch" /\ idx' = idx
     ELSE thrown' = thrown /\ pc' = "loop" /\ idx' = idx + 1
  /\ UNCHANGED <<workflow, auxVars, planVars, config, nodeRegistry, plan, logs, invoked, inflight, ret, escaped>>

\* variant: the error result spread over the node's previous result
RecordFailureKeepsOutput ==
  /\ pc = "catch"
  /\ results' = resultsSet(results, context.nodeId,
                  RunResult(context.nodeId, "error", resultsGet(results, context.nodeId).output,
                            <<[message |-> errorMessage(thrown[1]), code |-> errorCode(thrown[1])]>>))
  /\ events' = Append(events, [nodeId |-> context.nodeId, status |-> "failed"])
  /\ output' = <<>>
  /\ IF listenerThrows(config, "failed")
     THEN thrown' = <<ListenerError>> /\ pc' = "runCatch" /\ idx' = idx /\ logs' = logs
     ELSE /\ thrown' = <<>>
          /\ logs' = [logs EXCEPT ![context.nodeId] = Append(@, errorMessage(thrown[1]))]
          /\ pc' = "loop"
          /\ idx' = idx + 1
  /\ UNCHANGED <<workflow, auxVars, planVars, config, nodeRegistry, plan, completedNodes, invoked, inflight, ret, escaped>>

\* variant: the loop stops at the first failed node
RecordFailureHalts ==
  /\ pc = "catch"
  /\ results' = resultsSet(results, context.nodeId,
                  RunResult(context.nodeId, "error", <<>>,
                            <<[message |-> errorMessage(thrown[1]), code |-> errorCode(thrown[1])]>>))
  /\ events' = Append(events, [nodeId |-> context.nodeId, status |-> "failed"])
  /\ output' = <<>>
  /\ IF listenerThrows(config, "failed")
     THEN thrown' = <<ListenerError>> /\ pc' = "runCatch" /\ idx' = idx /\ logs' = logs
     ELSE /\ thrown' = <<>>
          /\ logs' = [logs EXCEPT ![context.nodeId] = Append(@, errorMessage(thrown[1]))]
          /\ pc' = "loop"
          /\ idx' = Len(plan[1].nodes) + 1
  /\ UNCHANGED <<workflow, auxVars, planVars, config, nodeRegistry, plan, completedNodes, invoked, inflight, ret, escaped>>

\* executeNode's catch block: results.set(error), emitEvent(failed), addLog;
\* a listener throwing here escapes executeNode into run()'s catch block
RecordFailure ==
  /\ pc = "catch"
  /\ results' = resultsSet(results, context.nodeId,
                  RunResult(context.nodeId, "error", <<>>,
                            <<[message |-> errorMessage(thrown[1]), code |-> errorCode(thrown[1])]>>))
  /\ events' = Append(events, [nodeId |-> context.nodeId, status |-> "failed"])
  /\ output' = <<>>
  /\ IF listenerThrows(config, "failed")
     THEN thrown' = <<ListenerError>> /\ pc' = "runCatch" /\ idx' = idx /\ logs' = logs
     ELSE /\ thrown' = <<>>
          /\ logs' = [logs EXCEPT ![context.nodeId] = Append(@, errorMessage(thrown[1]))]
          /\ pc' = "loop"
          /\ idx' = idx + 1
  /\ UNCHANGED <<workflow, auxVars, planVars, config, nodeRegistry, plan, completedNodes, invoked, inflight, ret, escaped>>

\* run() after the loop: the overall status and the return
RunFinish ==
  /\ pc = "loop"
  /\ idx > Len(plan[1].nodes)
  /\ ret' = <<finalExecution(results)>>
  /\ pc' = "returned"
  /\ UNCHANGED <<workflow, auxVars, planVars, config, nodeRegistry, plan, idx, results, completedNodes, logs,
                 events, invoked, inflight, thrown, output, escaped>>

\* variant: run() without its catch block, the exception leaves run()
RunCatchRethrows ==
  /\ pc = "runCatch"
  /\ escaped' = TRUE
  /\ pc' = "returned"
  /\ UNCHANGED <<workflow, auxVars, planVars, config, nodeRegistry, plan, idx, results, completedNodes, logs,
                 events, invoked, inflight, thrown, output, ret>>

\* run()'s catch block: the synthetic runner result
RunCatch ==
  /\ pc = "runCatch"
  /\ ret' = <<runnerErrorExecution(thrown[1])>>
  /\ thrown' = <<>>
  /\ pc' = "returned"
  /\ UNCHANGED <<workflow, auxVars, planVars, config, nodeRegistry, plan, idx, results, completedNodes, logs,
                 events, invoked, inflight, output, escaped>>

Next ==
  \/ RunStart
  \/ EmitQueued
  \/ EmitRunning
  \/ Dispatch
  \/ ExecutorResolves
  \/ ExecutorRejects
  \/ TimerFires
  \/ LateSettle
  \/ RecordSuccess
  \/ RecordFailure
  \/ RunFinish
  \/ RunCatch

Spec == InitRun /\ [][Next]_vars

\* ------------------------ two WorkflowRunner instances on one event loop

MaxRuntimeRegistrations == 1

\* one node, or two nodes, with or without the edge 1 -> 2, of any types
ConcurrentWorkflows ==
  UNION {{[nodes |-> [i \in 1..n |-> [id |-> i, type |-> ty[i]]], edges |-> es, ports |-> <<>>] :
            ty \in [1..n -> NodeTypes], es \in {<<>>, <<Edge(1, 2)>>}} : n \in 1..RunNodes}

ConcurrentConfigs == {[timeoutMs |-> ShortTimeoutMs, throwOn |-> th] : th \in {{}, {"failed"}}}

\* the private instance fields of the runner that currently owns the thread
thisRunner ==
  [pc |-> pc, plan |-> plan, idx |-> idx, results |-> results, completedNodes |-> completedNodes,
   logs |-> logs, events |-> events, invoked |-> invoked, inflight |-> inflight,
   thrown |-> thrown, output |-> output, ret |-> ret, escaped |-> escaped]

\* run() is not on the stack: not called yet, suspended at one of its awaits, or resolved
AtAwaitPoint(p) == p \in {"idle", "loop", "await", "returned"}

\* both instances are constructed for the same workflow and configuration
InitConcurrent ==
  /\ workflow \in ConcurrentWorkflows
  /\ config \in ConcurrentConfigs
  /\ PlanIdle
  /\ RunnerIdle
  /\ AuxIdle

\* variant: completedNodes is one array shared by the instances (a static field)
YieldToOtherRunnerSharedOutputs ==
  /\ AtAwaitPoint(pc)
  /\ peer' = [thisRunner EXCEPT !.completedNodes = <<>>]
  /\ active' = 3 - active
  /\ pc' = peer.pc /\ plan' = peer.plan /\ idx' = peer.idx /\ results' = peer.results
  /\ completedNodes' = completedNodes \o peer.completedNodes
  /\ logs' = peer.logs /\ events' = peer.events /\ invoked' = peer.invoked
  /\ inflight' = peer.inflight /\ thrown' = peer.thrown /\ output' = peer.output
  /\ ret' = peer.ret /\ escaped' = peer.escaped
  /\ UNCHANGED <<workflow, planVars, config, nodeRegistry, registerCalls, resolveIn, inputsOut, clock,
                 executionIds, builderVars, hostVars, invocation>>

\* the event loop runs the other instance's continuation: `this` is now the
\* other runner, whose fields are its own (class fields, part_000:67-74)
YieldToOtherRunner ==
  /\ AtAwaitPoint(pc)
  /\ peer' = thisRunner
  /\ active' = 3 - active
  /\ pc' = peer.pc /\ plan' = peer.plan /\ idx' = peer.idx /\ results' = peer.results
  /\ completedNodes' = peer.completedNodes
  /\ logs' = peer.logs /\ events' = peer.events /\ invoked' = peer.invoked
  /\ inflight' = peer.inflight /\ thrown' = peer.thrown /\ output' = peer.output
  /\ ret' = peer.ret /\ escaped' = peer.escaped
  /\ UNCHANGED <<workflow, planVars, config, nodeRegistry, registerCalls, resolveIn, inputsOut, clock,
                 executionIds, builderVars, hostVars, invocation>>

\* registerNode(nodeType, executor) called while the runs are under way
RegisterNodeDuringRuns ==
  /\ Len(registerCalls) < 1 + MaxRuntimeRegistrations
  /\ \E t \in NodeTypes, e \in Executors :
       /\ nodeRegistry' = registerNode(nodeRegistry, t, e)
       /\ registerCalls' = Append(registerCalls, [nodeType |-> t, executor |-> e])
  /\ UNCHANGED <<workflow, planVars, config, pc, plan, idx, results, completedNodes, logs, events, invoked,
                 inflight, thrown, output, ret, escaped, resolveIn, inputsOut, clock, executionIds, peer, active, builderVars, hostVars, invocation>>

\* the steps of the runner that owns the thread (its executors resolve or are
\* overtaken by the timer; settlements of race losers are left out, no code
\* of either runner is attached to them)
ThisRunnerSteps ==
  \/ RunStart
  \/ EmitQueued
  \/ EmitRunning
  \/ Dispatch
  \/ ExecutorResolves
  \/ TimerFires
  \/ RecordSuccess
  \/ RecordFailure
  \/ RunFinish
  \/ RunCatch

NextConcurrent ==
  \/ ThisRunnerSteps
  \/ YieldToOtherRunner
  \/ RegisterNodeDuringRuns

SpecConcurrent == InitConcurrent /\ [][NextConcurrent]_vars

\* ------------------------------------------- run() called more than once

MaxRuns == 2

\* run() is called again on the instance once the previous call has resolved:
\* its locals are fresh, the instance fields (completedNodes, results, logs)
\* are what the previous call left, nothing in run() clears them
RunAgain ==
  /\ pc = "returned"
  /\ invocation.n < MaxRuns
  /\ invocation' = [n |-> invocation.n + 1, completedBefore |-> Len(completedNodes),
                    invokedBefore |-> Len(invoked)]
  /\ pc' = "idle" /\ plan' = <<>> /\ idx' = 0 /\ ret' = <<>>
  /\ thrown' = <<>> /\ output' = <<>> /\ escaped' = FALSE
  /\ UNCHANGED <<workflow, planVars, config, nodeRegistry, results, completedNodes, logs, events, invoked,
                 inflight, registerCalls, resolveIn, inputsOut, clock, executionIds, peer, active,
                 builderVars, hostVars>>

InitRerun ==
  /\ workflow \in ConcurrentWorkflows
  /\ config \in ConcurrentConfigs
  /\ PlanIdle
  /\ RunnerIdle
  /\ AuxIdle

NextRerun ==
  \/ ThisRunnerSteps
  \/ RunAgain

SpecRerun == InitRerun /\ [][NextRerun]_vars

\* ------------------------------------------------- useWorkflowBuilder

MaxBuilderNodes == 2
MaxBuilderEdges == 2
MaxTimerId == 3
MaxBuilderActions == 5

\* one more call of a builder action by the component
Issue == issued < MaxBuilderActions /\ issued' = issued + 1

nonBuilderVars ==
  <<workflow, planVars, runnerVars, registerCalls, resolveIn, inputsOut, clock, executionIds, peer, active,
    hostVars, invocation>>

\* createNode('text', position): the id comes from generateId
BuilderNode(n) == [id |-> n, type |-> "text"]

\* createPort(nodeId, type, ...): the two default ports of node n get the ids 2n-1 and 2n
PortId(n, type) == IF type = "input" THEN 2 * n - 1 ELSE 2 * n
BuilderPort(n, type) == [id |-> PortId(n, type), nodeId |-> n, type |-> type]

\* createEdge(source, target, sourcePort, targetPort); 0 stands for undefined
BuilderEdge(id, source, target, sourcePort, targetPort) ==
  [id |-> id, source |-> source, target |-> target, sourcePort |-> sourcePort, targetPort |-> targetPort]

\* what saveCurrentWorkflow hands to saveWorkflow: nodes, edges, ports of its closure
Content(state) == [nodes |-> state.nodes, edges |-> state.edges, ports |-> state.ports]

InitBuilder ==
  /\ workflow = EmptyWorkflow
  /\ config = [timeoutMs |-> 0, throwOn |-> {}]
  /\ PlanIdle
  /\ RunnerIdle
  /\ AuxIdle

\* createNewWorkflow(name): setState({...initialState, workflow}); saveWorkflow(workflow)
CreateNewWorkflow ==
  /\ Issue
  /\ builder' = [initialState EXCEPT !.loaded = TRUE]
  /\ saved' = <<Content(initialState)>>
  /\ depsChanged' = TRUE
  /\ UNCHANGED <<nonBuilderVars, addEdgeOut, rendered, timers, autoSaveTimeoutRef, nextId>>

\* addNode(type, position): the node and its two default ports
AddNode ==
  /\ Issue
  /\ nextId.node <= MaxBuilderNodes
  /\ builder' = [builder EXCEPT !.nodes = Append(@, BuilderNode(nextId.node)),
                                !.ports = @ \o <<BuilderPort(nextId.node, "input"), BuilderPort(nextId.node, "output")>>,
                                !.isDirty = TRUE]
  /\ nextId' = [nextId EXCEPT !.node = @ + 1]
  /\ depsChanged' = TRUE
  /\ UNCHANGED <<nonBuilderVars, addEdgeOut, rendered, timers, autoSaveTimeoutRef, saved>>

\* removeNode(nodeId)
RemoveNode(nodeId) ==
  /\ Issue
  /\ builder' = [builder EXCEPT !.nodes = SelectSeq(@, LAMBDA n : n.id # nodeId),
                                !.edges = SelectSeq(@, LAMBDA e : e.source # nodeId /\ e.target # nodeId),
                                !.ports = SelectSeq(@, LAMBDA q : q.nodeId # nodeId),
                                !.selectedNodeIds = @ \ {nodeId},
                                !.isDirty = TRUE]
  /\ depsChanged' = TRUE
  /\ UNCHANGED <<nonBuilderVars, addEdgeOut, rendered, timers, autoSaveTimeoutRef, saved, nextId>>

\* addEdge(source, target, sourcePort, targetPort): the duplicate test and
\* validateWorkflowDAG read the rendered nodes and edges and decide between
\* null and an edge; the updater appends the edge to the latest edges
AddEdge(source, target, sourcePort, targetPort) ==
  /\ Issue
  /\ nextId.edge <= MaxBuilderEdges
  /\ LET edge == BuilderEdge(nextId.edge, source, target, sourcePort, targetPort)
         exists == \E i \in 1..Len(rendered.edges) :
                      rendered.edges[i].source = source /\ rendered.edges[i].target = target
         tempEdges == Append(rendered.edges, edge)
     IN IF exists \/ ~validateWorkflowDAG(rendered.nodes, tempEdges).valid
        THEN /\ addEdgeOut' = <<[call |-> issued + 1, source |-> source, target |-> target, returned |-> <<>>]>>
             /\ UNCHANGED <<builder, depsChanged, nextId>>
        ELSE /\ addEdgeOut' = <<[call |-> issued + 1, source |-> source, target |-> target, returned |-> <<edge>>]>>
             /\ builder' = [builder EXCEPT !.edges = Append(@, edge), !.isDirty = TRUE]
             /\ depsChanged' = TRUE
             /\ nextId' = [nextId EXCEPT !.edge = @ + 1]
  /\ UNCHANGED <<nonBuilderVars, rendered, timers, autoSaveTimeoutRef, saved>>

\* removeEdge(edgeId)
RemoveEdge(edgeId) ==
  /\ Issue
  /\ builder' = [builder EXCEPT !.edges = SelectSeq(@, LAMBDA e : e.id # edgeId),
                                !.selectedEdgeIds = @ \ {edgeId},
                                !.isDirty = TRUE]
  /\ depsChanged' = TRUE
  /\ UNCHANGED <<nonBuilderVars, addEdgeOut, rendered, timers, autoSaveTimeoutRef, saved, nextId>>

\* updateEdge(edgeId, {source}) and updateEdge(edgeId, {target}): {...edge, ...updates}
UpdateEdge(edgeId, field, value) ==
  /\ Issue
  /\ builder' = [builder EXCEPT
                   !.edges = [i \in 1..Len(@) |->
                                IF @[i].id = edgeId
                                THEN (IF field = "source" THEN [@[i] EXCEPT !.source = value]
                                      ELSE [@[i] EXCEPT !.target = value])
                                ELSE @[i]],
                   !.isDirty = TRUE]
  /\ depsChanged' = TRUE
  /\ UNCHANGED <<nonBuilderVars, addEdgeOut, rendered, timers, autoSaveTimeoutRef, saved, nextId>>

\* removePort(portId)
RemovePort(portId) ==
  /\ Issue
  /\ builder' = [builder EXCEPT !.ports = SelectSeq(@, LAMBDA q : q.id # portId),
                                !.edges = SelectSeq(@, LAMBDA e : e.sourcePort # portId /\ e.targetPort # portId),
                                !.isDirty = TRUE]
  /\ depsChanged' = TRUE
  /\ UNCHANGED <<nonBuilderVars, addEdgeOut, rendered, timers, autoSaveTimeoutRef, saved, nextId>>

\* new Set(multi ? selection : []) with the id toggled
toggled(selection, id, multi) ==
  LET base == IF multi THEN selection ELSE {}
  IN IF id \in base THEN base \ {id} ELSE base \cup {id}

\* selectNode(nodeId, multi)
SelectNode(nodeId, multi) ==
  /\ Issue
  /\ builder' = [builder EXCEPT !.selectedNodeIds = toggled(@, nodeId, multi),
                                !.selectedEdgeIds = IF multi THEN @ ELSE {}]
  /\ UNCHANGED <<nonBuilderVars, addEdgeOut, rendered, depsChanged, timers, autoSaveTimeoutRef, saved, nextId>>

\* selectEdge(edgeId, multi)
SelectEdge(edgeId, multi) ==
  /\ Issue
  /\ builder' = [builder EXCEPT !.selectedEdgeIds = toggled(@, edgeId, multi),
                                !.selectedNodeIds = IF multi THEN @ ELSE {}]
  /\ UNCHANGED <<nonBuilderVars, addEdgeOut, rendered, depsChanged, timers, autoSaveTimeoutRef, saved, nextId>>

\* deleteSelected()
DeleteSelected ==
  /\ Issue
  /\ builder' = [builder EXCEPT
                   !.nodes = SelectSeq(@, LAMBDA n : n.id \notin builder.selectedNodeIds),
                   !.edges = SelectSeq(@, LAMBDA e : /\ e.id \notin builder.selectedEdgeIds
                                                     /\ e.source \notin builder.selectedNodeIds
                                                     /\ e.target \notin builder.selectedNodeIds),
                   !.ports = SelectSeq(@, LAMBDA q : q.nodeId \notin builder.selectedNodeIds),
                   !.selectedNodeIds = {},
                   !.selectedEdgeIds = {},
                   !.isDirty = TRUE]
  /\ depsChanged' = TRUE
  /\ UNCHANGED <<nonBuilderVars, addEdgeOut, rendered, timers, autoSaveTimeoutRef, saved, nextId>>

\* clearTimeout(autoSaveTimeoutRef.current), guarded by if (autoSaveTimeoutRef.current)
clearAutoSave(ts) == {t \in ts : t.id # autoSaveTimeoutRef}

\* setTimeout returns an id that no earlier call returned
newTimerId(ts) == CHOOSE i \in 1..MaxTimerId : i # autoSaveTimeoutRef /\ \A t \in ts : t.id # i

\* a render: the callbacks see the latest state; when isDirty, workflow or
\* saveCurrentWorkflow changed, the auto-save effect's cleanup runs and then
\* the effect, whose timer closes over this render's saveCurrentWorkflow
Render ==
  /\ builder # rendered \/ depsChanged
  /\ rendered' = builder
  /\ depsChanged' = FALSE
  /\ IF depsChanged \/ builder.isDirty # rendered.isDirty
     THEN IF builder.isDirty /\ builder.loaded
          THEN /\ timers' = clearAutoSave(timers) \cup
                              {[id |-> newTimerId(clearAutoSave(timers)), closure |-> Content(builder)]}
               /\ autoSaveTimeoutRef' = newTimerId(clearAutoSave(timers))
          ELSE /\ timers' = clearAutoSave(timers)
               /\ UNCHANGED autoSaveTimeoutRef
     ELSE UNCHANGED <<timers, autoSaveTimeoutRef>>
  /\ UNCHANGED <<nonBuilderVars, addEdgeOut, builder, saved, nextId, issued>>

\* a pending timer fires: saveCurrentWorkflow() of the render that set it
AutoSaveFires ==
  /\ \E t \in timers :
       /\ timers' = timers \ {t}
       /\ saved' = <<t.closure>>
  /\ builder' = [builder EXCEPT !.loaded = TRUE, !.isDirty = FALSE]
  /\ depsChanged' = TRUE
  /\ UNCHANGED <<nonBuilderVars, addEdgeOut, rendered, autoSaveTimeoutRef, nextId, issued>>

NextBuilder ==
  \/ CreateNewWorkflow
  \/ AddNode
  \/ \E n \in 1..MaxBuilderNodes : RemoveNode(n)
  \/ \E s, t \in 1..MaxBuilderNodes : AddEdge(s, t, 0, 0) \/ AddEdge(s, t, PortId(s, "output"), PortId(t, "input"))
  \/ \E e \in 1..MaxBuilderEdges : RemoveEdge(e)
  \/ \E e \in 1..MaxBuilderEdges, f \in {"source", "target"}, v \in 1..MaxBuilderNodes : UpdateEdge(e, f, v)
  \/ \E q \in 1..(2 * MaxBuilderNodes) : RemovePort(q)
  \/ \E n \in 1..MaxBuilderNodes, multi \in BOOLEAN : SelectNode(n, multi)
  \/ \E e \in 1..MaxBuilderEdges, multi \in BOOLEAN : SelectEdge(e, multi)
  \/ DeleteSelected
  \/ Render
  \/ AutoSaveFires

SpecBuilder == InitBuilder /\ [][NextBuilder]_vars

\* the builder used without updateEdge
NextBuilderWithoutUpdateEdge ==
  \/ CreateNewWorkflow
  \/ AddNode
  \/ \E n \in 1..MaxBuilderNodes : RemoveNode(n)
  \/ \E s, t \in 1..MaxBuilderNodes : AddEdge(s, t, 0, 0) \/ AddEdge(s, t, PortId(s, "output"), PortId(t, "input"))
  \/ \E e \in 1..MaxBuilderEdges : RemoveEdge(e)
  \/ \E q \in 1..(2 * MaxBuilderNodes) : RemovePort(q)
  \/ \E n \in 1..MaxBuilderNodes, multi \in BOOLEAN : SelectNode(n, multi)
  \/ \E e \in 1..MaxBuilderEdges, multi \in BOOLEAN : SelectEdge(e, multi)
  \/ DeleteSelected
  \/ Render
  \/ AutoSaveFires

SpecBuilderWithoutUpdateEdge == InitBuilder /\ [][NextBuilderWithoutUpdateEdge]_vars

\* ------------------------------------------------------ storage.ts

STORAGE_KEY_PREFIX == "workflow:"
STORAGE_INDEX_KEY == "workflow:index"

\* a JavaScript object or Map as a function on its own keys
Put(obj, key, value) == [k \in DOMAIN obj \cup {key} |-> IF k = key THEN value ELSE obj[k]]
Without(obj, key) == [k \in DOMAIN obj \ {key} |-> obj[k]]
EmptyObject == [k \in {} |-> <<>>]

\* workflow ids the callers may use; "index" and "__proto__" are strings like
\* any other for `${STORAGE_KEY_PREFIX}${id}` and for index[workflowId]
WorkflowIds == {"a", "index", "__proto__"}
UpdatedAts == {"2024-01-01", "2024-01-02"}

\* position.x of a node: a number, written as its JSON text would be
PositionValues == {"0", "NaN"}
StoredNode(x) == [id |-> "n1", x |-> x]
NodeLists == {<<>>} \cup {<<StoredNode(x)>> : x \in PositionValues}

Metadata(id, updatedAt) == [id |-> id, name |-> "w", updatedAt |-> updatedAt]
StoredWorkflow(id, updatedAt, nodes) ==
  [metadata |-> Metadata(id, updatedAt), nodes |-> nodes, edges |-> <<>>, ports |-> <<>>]
\* an object the schema guard rejects: ports is not an array
NoPortsWorkflow(id) == [metadata |-> Metadata(id, "2024-01-01"), nodes |-> <<>>, edges |-> <<>>]
ValidWorkflows == {StoredWorkflow(id, u, ns) : id \in WorkflowIds, u \in UpdatedAts, ns \in NodeLists}
SaveArguments == ValidWorkflows \cup {NoPortsWorkflow("a")}

\* isValidWorkflow(data): metadata with its string fields, and nodes, edges
\* and ports arrays (the values under these keys are of those kinds here)
isValidWorkflow(data) == {"metadata", "nodes", "edges", "ports"} \subseteq DOMAIN data

\* JSON.parse(JSON.stringify(value)) of a number: NaN and the infinities
\* are written as null
jsonNumber(x) == IF x \in {"NaN", "Infinity", "-Infinity"} THEN "null" ELSE x
jsonNodes(nodes) == [i \in 1..Len(nodes) |-> [nodes[i] EXCEPT !.x = jsonNumber(@)]]
\* JSON.stringify(object): the document that JSON.parse gives back
stringify(obj) == [k \in DOMAIN obj |-> IF k = "nodes" THEN jsonNodes(obj[k]) ELSE obj[k]]

storageSetItem(store, key, value) == Put(store, key, value)
storageRemoveItem(store, key) == Without(store, key)
storageKeys(store) == DOMAIN store

\* key.startsWith(STORAGE_KEY_PREFIX)
startsWith(key, prefix) == Len(key) >= Len(prefix) /\ SubSeq(key, 1, Len(prefix)) = prefix

\* getWorkflowIndex(): the parsed document under STORAGE_INDEX_KEY, whatever
\* object it is; {} when there is none
getWorkflowIndex(store) ==
  IF STORAGE_INDEX_KEY \in DOMAIN store THEN store[STORAGE_INDEX_KEY] ELSE EmptyObject

\* index[workflowId] = metadata on a plain object: the key "__proto__" sets the
\* prototype and adds no own property
assignProperty(index, workflowId, metadata) ==
  IF workflowId = "__proto__" THEN index ELSE Put(index, workflowId, metadata)

updateWorkflowIndex(store, workflowId, metadata) ==
  storageSetItem(store, STORAGE_INDEX_KEY, stringify(assignProperty(getWorkflowIndex(store), workflowId, metadata)))

removeFromWorkflowIndex(store, workflowId) ==
  storageSetItem(store, STORAGE_INDEX_KEY, stringify(Without(getWorkflowIndex(store), workflowId)))

\* saveWorkflow(workflow) on a valid workflow
saveWorkflow(store, w) ==
  updateWorkflowIndex(storageSetItem(store, STORAGE_KEY_PREFIX \o w.metadata.id, stringify(w)),
                      w.metadata.id, w.metadata)

\* loadWorkflow(workflowId): <<>> for null
loadWorkflow(store, workflowId) ==
  LET key == STORAGE_KEY_PREFIX \o workflowId
  IN  IF key \notin DOMAIN store THEN <<>>
      ELSE IF isValidWorkflow(store[key]) THEN <<store[key]>> ELSE <<>>

deleteWorkflow(store, workflowId) ==
  removeFromWorkflowIndex(storageRemoveItem(store, STORAGE_KEY_PREFIX \o workflowId), workflowId)

\* the ids of listWorkflows(): the id of every value of the index object
\* ("undefined" for a value that is an array); the order is not modelled
listWorkflowIds(store) ==
  LET index == getWorkflowIndex(store)
  IN  {IF k \in {"nodes", "edges", "ports"} THEN "undefined" ELSE index[k].id : k \in DOMAIN index}

clearAllWorkflows(store) ==
  storageRemoveItem([k \in {j \in storageKeys(store) : ~startsWith(j, STORAGE_KEY_PREFIX)} |-> store[k]],
                    STORAGE_INDEX_KEY)

nonStorageVars ==
  <<workflow, planVars, runnerVars, registerCalls, resolveIn, inputsOut, clock, executionIds, peer, active,
    builderVars, rateVars, invocation>>

InitStorage ==
  /\ workflow = EmptyWorkflow
  /\ config = [timeoutMs |-> 0, throwOn |-> {}]
  /\ PlanIdle
  /\ RunnerIdle
  /\ AuxIdle

\* saveWorkflow(workflow): throws 'Invalid workflow data' when the guard rejects it
SaveWorkflow(w) ==
  /\ IF isValidWorkflow(w)
       THEN /\ storage' = saveWorkflow(storage, w)
            /\ lastSaved' = Put(lastSaved, w.metadata.id, w)
       ELSE UNCHANGED <<storage, lastSaved>>
  /\ UNCHANGED nonStorageVars

DeleteWorkflow(workflowId) ==
  /\ storage' = deleteWorkflow(storage, workflowId)
  /\ lastSaved' = Without(lastSaved, workflowId)
  /\ UNCHANGED nonStorageVars

ClearAllWorkflows ==
  /\ storage' = clearAllWorkflows(storage)
  /\ lastSaved' = EmptyObject
  /\ UNCHANGED nonStorageVars

NextStorage ==
  \/ \E w \in SaveArguments : SaveWorkflow(w)
  \/ \E id \in WorkflowIds : DeleteWorkflow(id)
  \/ ClearAllWorkflows

SpecStorage == InitStorage /\ [][NextStorage]_vars

\* --------------------------------------- run endpoint: checkRateLimit

RATE_LIMIT_WINDOW == 60000
RATE_LIMIT_MAX_REQUESTS == 100

\* x-forwarded-for or user-agent of the request: an address, and a string
\* that names a property every object inherits from Object.prototype
Identifiers == {"203.0.113.7", "constructor"}
InheritedKeys == {"constructor"}

\* the instants at which requests arrive, in ms after the first one: at once,
\* and at the last instant of a window that began at 0 and the first one after it
RequestInstants == {0, RATE_LIMIT_WINDOW, RATE_LIMIT_WINDOW + 1}

\* what checkRateLimit returns; remaining is NaN when isNaN
RateResult(allowed, remaining) == [allowed |-> allowed, remaining |-> remaining, isNaN |-> FALSE]
RateResultNaN == [allowed |-> TRUE, remaining |-> 0, isNaN |-> TRUE]

\* checkRateLimit(identifier) at Date.now() = now: the store, the inherited
\* count and the returned value. rateLimitStore[identifier] of an identifier
\* without own entry is undefined, or the inherited value (Object for
\* "constructor"): an object without resetTime and, at first, without count, so
\* that both comparisons are false and count++ makes its count NaN
checkRateLimit(store, inherited, identifier, now) ==
  IF identifier \in DOMAIN store
  THEN LET limitData == store[identifier]
       IN IF now > limitData.resetTime
          THEN [store |-> Put(store, identifier, [count |-> 1, resetTime |-> now + RATE_LIMIT_WINDOW]),
                inherited |-> inherited, result |-> RateResult(TRUE, RATE_LIMIT_MAX_REQUESTS - 1)]
          ELSE IF limitData.count >= RATE_LIMIT_MAX_REQUESTS
          THEN [store |-> store, inherited |-> inherited, result |-> RateResult(FALSE, 0)]
          ELSE [store |-> Put(store, identifier, [limitData EXCEPT !.count = @ + 1]),
                inherited |-> inherited,
                result |-> RateResult(TRUE, RATE_LIMIT_MAX_REQUESTS - (limitData.count + 1))]
  ELSE IF identifier \in InheritedKeys
  THEN [store |-> store, inherited |-> "NaN", result |-> RateResultNaN]
  ELSE [store |-> Put(store, identifier, [count |-> 1, resetTime |-> now + RATE_LIMIT_WINDOW]),
        inherited |-> inherited, result |-> RateResult(TRUE, RATE_LIMIT_MAX_REQUESTS - 1)]

\* the window the documentation describes: it starts at an identifier's first
\* allowed call, and again at its first allowed call after RATE_LIMIT_WINDOW ms;
\* the allowed calls of a window are counted up to one past the limit
windowAfter(windows, identifier, now, allowed) ==
  IF ~allowed THEN windows
  ELSE IF identifier \notin DOMAIN windows \/ now > windows[identifier].start + RATE_LIMIT_WINDOW
  THEN Put(windows, identifier, [start |-> now, allowed |-> 1])
  ELSE Put(windows, identifier,
           [windows[identifier] EXCEPT !.allowed = IF @ > RATE_LIMIT_MAX_REQUESTS THEN @ ELSE @ + 1])

nonRateVars ==
  <<workflow, planVars, runnerVars, registerCalls, resolveIn, inputsOut, executionIds, peer, active,
    builderVars, storageVars, invocation>>

InitRate ==
  /\ workflow = EmptyWorkflow
  /\ config = [timeoutMs |-> 0, throwOn |-> {}]
  /\ PlanIdle
  /\ RunnerIdle
  /\ AuxIdle

\* a request of the client: checkRateLimit(clientId)
CheckRateLimit(identifier) ==
  /\ LET r == checkRateLimit(rateLimitStore, inheritedCount, identifier, clock)
     IN /\ rateLimitStore' = r.store
        /\ inheritedCount' = r.inherited
        /\ rateOut' = <<[identifier |-> identifier, result |-> r.result]>>
        /\ rateWindow' = windowAfter(rateWindow, identifier, clock, r.result.allowed)
  /\ UNCHANGED <<nonRateVars, clock>>

\* Date.now() moves on to the instant of the next request
TimePasses(instant) ==
  /\ instant > clock
  /\ clock' = instant
  /\ UNCHANGED <<nonRateVars, rateVars>>

NextRate ==
  \/ \E identifier \in Identifiers : CheckRateLimit(identifier)
  \/ \E instant \in RequestInstants : TimePasses(instant)

SpecRate == InitRate /\ [][NextRate]_vars

\* ------------------------------------------------- graph notions (claims)

\* ids one edge away from an id of S
Successors(edges, S) == {edges[i].target : i \in {j \in 1..Len(edges) : edges[j].source \in S}}

RECURSIVE ReachFrom(_, _, _)
\* ids reachable from the frontier by zero or more edges, seen included
ReachFrom(edges, seen, frontier) ==
  IF frontier \subseteq seen THEN seen
  ELSE ReachFrom(edges, seen \cup frontier, Successors(edges, seen \cup frontier))

\* ids reachable from id by one or more edges
ReachPlus(edges, id) == ReachFrom(edges, {}, Successors(edges, {id}))

OnCycle(edges, id) == id \in ReachPlus(edges, id)

\* some closed walk exists, through nodes or through dangling ids
ContainsCycle(wf) == \E id \in Ids : OnCycle(wf.edges, id)

\* some closed walk can be reached from a node of the workflow
ContainsCycleReachableFromNode(wf) ==
  \E n \in nodeIdsOf(wf.nodes) : \E id \in {n} \cup ReachPlus(wf.edges, n) : OnCycle(wf.edges, id)

DistinctNodeIds(wf) == \A i, j \in 1..Len(wf.nodes) : wf.nodes[i].id = wf.nodes[j].id => i = j

SourcesExist(wf) == \A i \in 1..Len(wf.edges) : wf.edges[i].source \in nodeIdsOf(wf.nodes)

\* position of the first context of a node id in a plan's node list, 0 when absent
PlanIndex(p, id) ==
  IF \E i \in 1..Len(p.nodes) : p.nodes[i].nodeId = id
  THEN CHOOSE i \in 1..Len(p.nodes) : p.nodes[i].nodeId = id /\ \A j \in 1..(i-1) : p.nodes[j].nodeId # id
  ELSE 0

\* every edge between planned nodes goes forward in the plan
EdgesGoForward(wf, p) ==
  \A i \in 1..Len(wf.edges) :
    wf.edges[i].target \in nodeIdsOf(wf.nodes) =>
      /\ PlanIndex(p, wf.edges[i].source) > 0
      /\ PlanIndex(p, wf.edges[i].source) < PlanIndex(p, wf.edges[i].target)

\* ------------------------------------------------------------------ C1

\* C1 as stated: for any acyclic graph buildExecutionPlan returns valid=true and
\* every edge (u->v) has u before v in plan.nodes.
C1_AnyAcyclicGraphPlans ==
  (planOut # <<>> /\ ~ContainsCycle(workflow)) =>
     (planOut[1].valid /\ EdgesGoForward(workflow, planOut[1]))

\* C1 amended: for any acyclic graph with distinct node ids whose edge sources
\* are all existing nodes, buildExecutionPlan returns valid=true with no error,
\* and every edge (u->v) whose target is a node has u strictly before v in
\* plan.nodes.
C1_AcyclicWellFormedGraphPlans ==
  (planOut # <<>> /\ ~ContainsCycle(workflow) /\ DistinctNodeIds(workflow) /\ SourcesExist(workflow)) =>
     (planOut[1].valid /\ planOut[1].errors = <<>> /\ EdgesGoForward(workflow, planOut[1]))

\* a chain 1 -> 2 -> 3 given in reverse node order has been planned
C1_Witness ==
  /\ planOut # <<>>
  /\ planOut[1].valid
  /\ ~ContainsCycle(workflow) /\ DistinctNodeIds(workflow) /\ SourcesExist(workflow)
  /\ Len(workflow.edges) = 2
  /\ \E i \in 1..Len(workflow.edges) :
       /\ workflow.edges[i].target \in nodeIdsOf(workflow.nodes)
       /\ IndexOf([k \in 1..Len(workflow.nodes) |-> workflow.nodes[k].id], workflow.edges[i].source)
            > IndexOf([k \in 1..Len(workflow.nodes) |-> workflow.nodes[k].id], workflow.edges[i].target)

\* ------------------------------------------------------------------ C2

HasCycleErrorMessage(errors) ==
  \E i \in 1..Len(errors) : errors[i].text = "Workflow contains a cycle: " /\ errors[i].cycle # <<>>

CycleIsReported ==
  /\ validationOut # <<>> => (~validationOut[1].valid /\ Contains(validationOut[1].errors, ValidatorCycleError))
  /\ cyclesOut # <<>> => cyclesOut[1].hasCycle
  /\ planOut # <<>> => (~planOut[1].valid /\ HasCycleErrorMessage(planOut[1].errors) /\ planOut[1].nodes = <<>>)

\* C2 as stated: for any graph containing a cycle (a self-loop included) the
\* validator, checkForCycles and buildExecutionPlan all report it.
C2_AnyCycleReported == ContainsCycle(workflow) => CycleIsReported

\* C2 amended: for any graph containing a cycle that can be reached from an
\* existing node (a self-loop on a node included), validateWorkflowDAG returns
\* valid=false with the cycle error, checkForCycles returns hasCycle=true, and
\* buildExecutionPlan returns valid=false with an error naming the cycle and an
\* empty node list.
C2_ReachableCycleReported == ContainsCycleReachableFromNode(workflow) => CycleIsReported

\* the planner has rejected a workflow whose only edge is a self-loop on a node
C2_Witness ==
  /\ planOut # <<>>
  /\ ~planOut[1].valid
  /\ Len(workflow.edges) = 1
  /\ workflow.edges[1].source = workflow.edges[1].target
  /\ workflow.edges[1].source \in nodeIdsOf(workflow.nodes)

\* ------------------------------------------------- run notions (claims)

PlanOrder == [i \in 1..Len(plan[1].nodes) |-> plan[1].nodes[i].nodeId]

\* the node ids of the events of one type, in delivery order
EventNodes(status) ==
  LET es == SelectSeq(events, LAMBDA e : e.status = status)
  IN [i \in 1..Len(es) |-> es[i].nodeId]

\* the event types delivered for one node, in delivery order
NodeEvents(nodeId) ==
  LET es == SelectSeq(events, LAMBDA e : e.nodeId = nodeId)
  IN [i \in 1..Len(es) |-> es[i].status]

IsPrefix(s, t) == Len(s) <= Len(t) /\ \A i \in 1..Len(s) : s[i] = t[i]

Terminal(status) == status \in {"success", "error"}

HasTerminalResult(nodeId) == resultsHas(results, nodeId) /\ Terminal(resultsGet(results, nodeId).status)

\* ------------------------------------------------------------------ C3

\* C3: when buildExecutionPlan is invalid, run() returns at once with overall
\* status error and one synthetic error result (code PLAN_ERROR) per planning
\* error string, in order; no executor is invoked and no event is delivered.
C3_InvalidPlanShortCircuits ==
  (plan # <<>> /\ ~plan[1].valid) =>
     /\ pc = "returned"
     /\ ret # <<>>
     /\ ret[1].status = "error"
     /\ Len(plan[1].errors) > 0
     /\ Len(ret[1].results) = Len(plan[1].errors)
     /\ \A i \in 1..Len(ret[1].results) :
          /\ ret[1].results[i].status = "error"
          /\ ret[1].results[i].output = <<>>
          /\ ret[1].results[i].error = <<[message |-> plan[1].errors[i], code |-> "PLAN_ERROR"]>>
     /\ invoked = <<>>
     /\ events = <<>>
     /\ results = <<>>

\* a run of a two-node cycle whose nodes have a registered handler has returned
C3_Witness ==
  /\ pc = "returned"
  /\ plan # <<>> /\ ~plan[1].valid
  /\ Len(workflow.nodes) = 2
  /\ \A i \in 1..Len(workflow.nodes) : workflow.nodes[i].type = "text"
  /\ ret[1].results[1].error[1].message.cycle = <<1, 2, 1>>

\* ------------------------------------------------------------------ C4

AllPlannedAttempted ==
  /\ EventNodes("queued") = PlanOrder
  /\ \A i \in 1..Len(PlanOrder) : HasTerminalResult(PlanOrder[i])

C5_StatusIsErrorIffSomeResultIsError ==
  pc = "returned" =>
     /\ ret # <<>>
     /\ ret[1].status \in {"success", "error"}
     /\ ret[1].status = "error" <=> (\E i \in 1..Len(ret[1].results) : ret[1].results[i].status = "error")

\* every planned node was attempted, one succeeded and one failed, status error
C5_Witness ==
  /\ pc = "returned"
  /\ plan[1].valid
  /\ idx > Len(plan[1].nodes)
  /\ ret[1].status = "error"
  /\ \E i \in 1..Len(ret[1].results) : ret[1].results[i].status = "success"
  /\ \E i \in 1..Len(ret[1].results) : ret[1].results[i].status = "error"

\* ------------------------------------------------------------------ C6

EventPatterns ==
  {<<"queued">>, <<"queued", "running">>,
   <<"queued", "running", "succeeded">>, <<"queued", "running", "failed">>}

\* C6 as stated: the listener receives each attempted node's events as queued,
\* running, then exactly one of succeeded or failed; a node whose attempt is
\* over has received all three.
C6_EventsInCausalOrder ==
  plan # <<>> =>
     \A i \in 1..Len(plan[1].nodes) :
        /\ NodeEvents(PlanOrder[i]) # <<>> => NodeEvents(PlanOrder[i]) \in EventPatterns
        /\ (i < idx \/ pc = "returned") /\ NodeEvents(PlanOrder[i]) # <<>> => Len(NodeEvents(PlanOrder[i])) = 3

\* ------------------------------------------------------------------ C7

ExecutionFields == {"workflowId", "executionId", "status", "results", "startedAt", "completedAt"}

\* the steps of a started run: everything but the start itself and the late
\* settlement of a race's loser
RunContinues ==
  \/ EmitQueued
  \/ EmitRunning
  \/ Dispatch
  \/ ExecutorResolves
  \/ ExecutorRejects
  \/ TimerFires
  \/ RecordSuccess
  \/ RecordFailure
  \/ RunFinish
  \/ RunCatch

\* C7: run() never throws past the run boundary: whatever the executors and the
\* event listener do, no exception leaves run(), a started run that has not
\* returned can always take its next step (no throw leaves it stuck, and each
\* node emits at most four events, so the loop ends), and what run() resolves
\* with carries workflowId, executionId, status, results, startedAt and
\* completedAt.
C7_RunNeverThrows ==
  /\ ~escaped
  /\ pc # "returned" => ret = <<>>
  /\ pc \notin {"idle", "returned"} => ENABLED RunContinues
  /\ Len(events) <= 4 * Len(workflow.nodes)
  /\ pc = "returned" => (Len(ret) = 1 /\ DOMAIN ret[1] = ExecutionFields /\ ret[1].status \in {"success", "error"})

\* run() resolved although the listener threw while a failed event was delivered
C7_Witness ==
  /\ pc = "returned"
  /\ ~escaped
  /\ Len(ret) = 1
  /\ "failed" \in config.throwOn
  /\ Len(events) > 0
  /\ events[Len(events)].status = "failed"
  /\ ret[1].results[1].nodeId = RunnerNodeId

\* ------------------------------------------------------------------ C8

ConfiguredBudget == IF config.timeoutMs = 0 THEN DefaultTimeoutMs ELSE config.timeoutMs

IsTimeoutMessage(m) == m.text = "Execution timeout after ms" /\ m.ms = ConfiguredBudget

\* the timer of the awaited call fires while its executor has not settled
TimeoutElapses ==
  /\ pc = "await"
  /\ [call |-> Len(invoked), kind |-> "executor"] \in inflight'
  /\ [call |-> Len(invoked), kind |-> "timer"] \in inflight \ inflight'

TimeoutIsCaught == pc' = "catch" /\ Len(thrown') = 1 /\ thrown'[1].isError /\ IsTimeoutMessage(thrown'[1].message)

TimeoutCaught == pc = "catch" /\ Len(thrown) = 1 /\ thrown[1].isError /\ IsTimeoutMessage(thrown[1].message)

TimeoutIsRecorded ==
  /\ resultsGet(results', context.nodeId).status = "error"
  /\ IsTimeoutMessage(resultsGet(results', context.nodeId).error[1].message)
  /\ events' = Append(events, [nodeId |-> context.nodeId, status |-> "failed"])

ProceedsToNextNode == pc' = "loop" /\ idx' = idx + 1 /\ plan' = plan

LoserSettles ==
  \E p \in inflight \ inflight' : ~(pc = "await" /\ p.call = Len(invoked))

\* the awaited race is decided by the executor / by the timer
ExecutorWinsRace == pc = "await" /\ [call |-> Len(invoked), kind |-> "executor"] \in inflight \ inflight'
TimerWinsRace == pc = "await" /\ [call |-> Len(invoked), kind |-> "timer"] \in inflight \ inflight'

\* C9: whichever of executor and timer settles first alone decides the node's
\* outcome (the executor: its output or its own error; the timer: the timeout
\* error), and a later settlement of the loser changes no RunResult, adds
\* nothing to the completed outputs, emits no event and moves the run nowhere.
C9_FirstSettlementDecides ==
  [][/\ LoserSettles => UNCHANGED <<results, completedNodes, events, logs, ret, pc, idx, thrown, output>>
     /\ ExecutorWinsRace =>
          /\ [call |-> Len(invoked), kind |-> "timer"] \in inflight'
          /\ \/ pc' = "success" /\ Len(output') = 1 /\ thrown' = thrown
             \/ pc' = "catch" /\ Len(thrown') = 1 /\ thrown'[1] \in ExecutorErrors /\ output' = <<>>
     /\ TimerWinsRace =>
          /\ [call |-> Len(invoked), kind |-> "executor"] \in inflight'
          /\ TimeoutIsCaught /\ output' = <<>>]_vars

\* after the return both losers have settled late: the executor of a node that
\* timed out and the timer of a node that succeeded
C9_Witness ==
  /\ pc = "returned"
  /\ Len(invoked) = 2
  /\ inflight = {}
  /\ \E i \in 1..Len(results) : results[i].status = "success"
  /\ \E i \in 1..Len(results) :
       results[i].status = "error" /\ results[i].error[1].message.text = "Execution timeout after ms"
  /\ Len(completedNodes) = 1

\* ----------------------------------------------------------------- C10

\* C10 as stated: in a run with a valid plan, whenever a node's executor has
\* been invoked, every source of an edge into that node (its dependency set)
\* has a terminal RunResult, success or error.
C10_EverySourceTerminalAtInvocation ==
  (pc = "await" /\ plan[1].valid) =>
     /\ invoked[Len(invoked)].nodeId = context.nodeId
     /\ \A i \in 1..Len(workflow.edges) :
          workflow.edges[i].target = context.nodeId =>
             /\ Contains(context.dependencies, workflow.edges[i].source)
             /\ HasTerminalResult(workflow.edges[i].source)

\* C10 amended: in a run with a valid plan, whenever a node's executor has been
\* invoked, every source of an edge into that node that is itself a node of the
\* workflow has a terminal RunResult, success or error (a source id that names
\* no node is in the dependency set too but never gets a RunResult); a failed
\* dependency does not block the node.
C10_NodeDependenciesTerminalAtInvocation ==
  (pc = "await" /\ plan[1].valid) =>
     /\ invoked[Len(invoked)].nodeId = context.nodeId
     /\ \A i \in 1..Len(workflow.edges) :
          workflow.edges[i].target = context.nodeId =>
             /\ Contains(context.dependencies, workflow.edges[i].source)
             /\ workflow.edges[i].source \in nodeIdsOf(workflow.nodes) => HasTerminalResult(workflow.edges[i].source)

\* a node's executor is invoked although its dependency failed
C10_Witness ==
  /\ pc = "await"
  /\ plan[1].valid
  /\ Len(context.dependencies) = 1
  /\ resultsGet(results, context.dependencies[1]).status = "error"

\* ----------------------------------------------------------------- C11

RunningNodes == {i \in 1..Len(results) : results[i].status = "running"}

\* position in the plan of the node an event or invocation is about
PlanPosition(nodeId) == CHOOSE i \in 1..Len(PlanOrder) : PlanOrder[i] = nodeId

AllEarlierTerminal(nodeId) == \A j \in 1..(PlanPosition(nodeId) - 1) : HasTerminalResult(PlanOrder[j])

\* C11: one node at a time in plan order: at most one RunResult is running at
\* any moment, the queued events and the executor invocations follow the plan
\* order, and the node most recently queued or invoked is preceded in the plan
\* only by nodes that already have a terminal result.
C11_OneNodeAtATime ==
  plan # <<>> =>
     /\ Cardinality(RunningNodes) <= 1
     /\ IsPrefix(EventNodes("queued"), PlanOrder)
     /\ \A i \in 1..Len(events) : events[i].status = "queued" /\ i = Len(events) => AllEarlierTerminal(events[i].nodeId)
     /\ \A i \in 1..Len(invoked) : \A j \in 1..(i-1) : PlanPosition(invoked[j].nodeId) < PlanPosition(invoked[i].nodeId)
     /\ pc = "await" => AllEarlierTerminal(invoked[Len(invoked)].nodeId)
     /\ \A i \in RunningNodes : pc \in {"running", "await", "success", "catch"} /\ results[i].nodeId = context.nodeId

\* the second planned node is running and awaited while the first is terminal
C11_Witness ==
  /\ pc = "await"
  /\ Len(PlanOrder) = 2
  /\ idx = 2
  /\ resultsGet(results, PlanOrder[2]).status = "running"
  /\ HasTerminalResult(PlanOrder[1])
  /\ Len(invoked) = 2

\* ----------------------------------------------------------------- C12

\* no registerNode call was ever made for the tag
NeverRegistered(nodeType) == \A i \in 1..Len(registerCalls) : registerCalls[i].nodeType # nodeType

IsNoExecutorError(e, nodeType) ==
  /\ e.message.text = "No executor registered for node type: "
  /\ e.message.nodeType = nodeType
  /\ e.code = "EXECUTION_ERROR"

\* the executor lookup of a node whose type has no handler
LookupOfUnregisteredType == pc = "running" /\ NeverRegistered(context.node.type)

LookupFails ==
  /\ getNodeExecutor(nodeRegistry, context.node.type) = NoExecutor
  /\ pc' = "catch"
  /\ Len(thrown') = 1
  /\ thrown'[1].isError
  /\ thrown'[1].message.text = "No executor registered for node type: "
  /\ invoked' = invoked

NoExecutorCaught ==
  /\ pc = "catch"
  /\ Len(thrown) = 1
  /\ thrown[1].isError
  /\ thrown[1].message.text = "No executor registered for node type: "

NoExecutorIsRecorded ==
  /\ resultsGet(results', context.nodeId).status = "error"
  /\ IsNoExecutorError(resultsGet(results', context.nodeId).error[1], context.node.type)
  /\ events' = Append(events, [nodeId |-> context.nodeId, status |-> "failed"])
  /\ ~escaped'

CallsFor(nodeType) == {i \in 1..Len(registerCalls) : registerCalls[i].nodeType = nodeType}

\* the executor passed to the most recent call for the tag, null without one
LastRegistered(nodeType) ==
  IF CallsFor(nodeType) = {} THEN NoExecutor
  ELSE registerCalls[CHOOSE i \in CallsFor(nodeType) : \A j \in CallsFor(nodeType) : j <= i].executor

\* C13: after any sequence of registerNode calls, getNodeExecutor(t) is the
\* executor of the most recent registerNode call for t, null when there was
\* none; a call for one tag therefore leaves every other tag's executor as it
\* was.
C13_LastWriteWins ==
  \A t \in NodeTypes : getNodeExecutor(nodeRegistry, t) = LastRegistered(t)

\* the text handler was overridden twice, with a registration of another tag in between
C13_Witness ==
  /\ Len(registerCalls) = 4
  /\ registerCalls[2].nodeType = "text"
  /\ registerCalls[3].nodeType = "custom"
  /\ registerCalls[4].nodeType = "text"
  /\ registerCalls[4].executor # registerCalls[2].executor
  /\ registerCalls[2].executor # TextExecutor
  /\ getNodeExecutor(nodeRegistry, "text") = registerCalls[4].executor
  /\ getNodeExecutor(nodeRegistry, "custom") = registerCalls[3].executor

\* ------------------------------------------- resolver notions (claims)

ResolveCalled == inputsOut # <<>>

\* positions in the edge array of the edges into the resolved node
Incoming == {i \in 1..Len(resolveIn[1].edges) : resolveIn[1].edges[i].target = resolveIn[1].context.nodeId}

HasRecordedOutput(nodeId) ==
  \E j \in 1..Len(resolveIn[1].completedNodes) : resolveIn[1].completedNodes[j].nodeId = nodeId

RecordedOutput(nodeId) ==
  resolveIn[1].completedNodes[CHOOSE j \in 1..Len(resolveIn[1].completedNodes) :
                                 resolveIn[1].completedNodes[j].nodeId = nodeId].output

SourceOutput(i) == RecordedOutput(resolveIn[1].edges[i].source)

Unscoped(i) == resolveIn[1].edges[i].targetPort = 0

\* positions in ports of the ports carrying the edge's target-port id
PortsNamed(i) == {p \in 1..Len(resolveIn[1].ports) : resolveIn[1].ports[p].id = resolveIn[1].edges[i].targetPort}

\* the port an id resolves to is the first one carrying it
NamedPort(i) == resolveIn[1].ports[CHOOSE p \in PortsNamed(i) : \A q \in PortsNamed(i) : p <= q]

HasLabelledPort(i) == PortsNamed(i) # {} /\ NamedPort(i).label # ""

\* edge i writes key k of the input mapping
Supplies(i, k) ==
  /\ i \in Incoming
  /\ HasRecordedOutput(resolveIn[1].edges[i].source)
  /\ IF Unscoped(i) THEN k \in DOMAIN SourceOutput(i) ELSE HasLabelledPort(i) /\ NamedPort(i).label = k

NoLaterSupplier(i, k) == \A j \in Incoming : j > i => ~Supplies(j, k)

\* ----------------------------------------------------------------- C14

\* C14: for every incoming edge without a target port whose source has a
\* recorded output, every key of the source's output record is a key of the
\* resolved inputs, and it carries that source's value unless an edge later in
\* the edge array writes the same key (the later edge wins).
C14_UnscopedEdgesMergeLaterWins ==
  ResolveCalled =>
    \A i \in Incoming :
      (Unscoped(i) /\ HasRecordedOutput(resolveIn[1].edges[i].source)) =>
        \A k \in DOMAIN SourceOutput(i) :
          /\ k \in DOMAIN inputsOut[1]
          /\ NoLaterSupplier(i, k) => inputsOut[1][k] = SourceOutput(i)[k]

\* two unscoped edges from different sources collide on value1: the later
\* edge's value is kept, value2 of the earlier source survives
C14_Witness ==
  /\ ResolveCalled
  /\ Len(resolveIn[1].edges) = 2
  /\ Incoming = {1, 2}
  /\ Unscoped(1) /\ Unscoped(2)
  /\ resolveIn[1].edges[1].source # resolveIn[1].edges[2].source
  /\ HasRecordedOutput(resolveIn[1].edges[1].source)
  /\ HasRecordedOutput(resolveIn[1].edges[2].source)
  /\ DOMAIN SourceOutput(1) = {"value1", "value2"}
  /\ DOMAIN SourceOutput(2) = {"value1"}
  /\ inputsOut[1]["value1"] = SourceOutput(2)["value1"]
  /\ inputsOut[1]["value1"] # SourceOutput(1)["value1"]
  /\ inputsOut[1]["value2"] = SourceOutput(1)["value2"]

\* ----------------------------------------------------------------- C15

\* C15: resolveNodeInputs never fails: the call always returns a mapping; every
\* key of it was written by an incoming edge whose source has a recorded output
\* (an edge whose source has none contributes nothing), and without incoming
\* edges the mapping is empty.
C15_MissingSourcesContributeNothing ==
  /\ ~ResolveCalled => ENABLED ApplyResolveNodeInputs
  /\ ResolveCalled =>
       /\ \A k \in DOMAIN inputsOut[1] : \E i \in Incoming : Supplies(i, k)
       /\ Incoming = {} => inputsOut[1] = EmptyRecord
       /\ (\A i \in Incoming : ~HasRecordedOutput(resolveIn[1].edges[i].source)) => inputsOut[1] = EmptyRecord

\* a scoped edge from a source without recorded output next to an unscoped
\* edge from a recorded one: only the recorded output arrives
C15_Witness ==
  /\ ResolveCalled
  /\ Incoming = {1, 2}
  /\ ~Unscoped(1)
  /\ HasLabelledPort(1)
  /\ ~HasRecordedOutput(resolveIn[1].edges[1].source)
  /\ Unscoped(2)
  /\ HasRecordedOutput(resolveIn[1].edges[2].source)
  /\ DOMAIN SourceOutput(2) = {"value2"}
  /\ inputsOut[1] = SourceOutput(2)

\* ----------------------------------------------------------------- C16

\* the single field a scoped edge copies: the label's value, null when missing
CopiedField(i) ==
  IF NamedPort(i).label \in DOMAIN SourceOutput(i) THEN SourceOutput(i)[NamedPort(i).label] ELSE JsNull

ScopedEdgeCopiesItsField(i) ==
  /\ PortsNamed(i) # {}
  /\ NamedPort(i).label \in DOMAIN inputsOut[1]
  /\ NoLaterSupplier(i, NamedPort(i).label) => inputsOut[1][NamedPort(i).label] = CopiedField(i)

\* C16 as stated: every incoming edge that specifies a target-port id (and
\* whose source has a recorded output) copies the field named by that port's
\* label, null when the source output lacks it.
C16_EveryScopedEdgeCopiesOneField ==
  ResolveCalled =>
    \A i \in Incoming :
      (~Unscoped(i) /\ HasRecordedOutput(resolveIn[1].edges[i].source)) => ScopedEdgeCopiesItsField(i)

\* C16 amended: an incoming edge with a target-port id whose source has a
\* recorded output copies exactly one field when that id names a port (the
\* first with the id) with a non-empty label: the field named by the label,
\* under the same label, null when the source output lacks it (unless a later
\* edge writes that key); when no port has the id or the label is empty, the
\* edge writes nothing at all.
C16_ScopedEdgeWithLabelledPortCopiesOneField ==
  ResolveCalled =>
    /\ \A i \in Incoming :
         (~Unscoped(i) /\ HasRecordedOutput(resolveIn[1].edges[i].source) /\ HasLabelledPort(i)) =>
            ScopedEdgeCopiesItsField(i)
    /\ \A k \in DOMAIN inputsOut[1] : \E i \in Incoming : Supplies(i, k)

\* a scoped edge whose source recorded value2 only: the inputs are exactly
\* {value1: null}
C16_Witness ==
  /\ ResolveCalled
  /\ Incoming = {1}
  /\ ~Unscoped(1)
  /\ HasLabelledPort(1)
  /\ NamedPort(1).label = "value1"
  /\ HasRecordedOutput(resolveIn[1].edges[1].source)
  /\ DOMAIN SourceOutput(1) = {"value2"}
  /\ DOMAIN inputsOut[1] = {"value1"}
  /\ inputsOut[1]["value1"] = JsNull

\* ----------------------------------------------------------------- C17

NodeIdList(wf) == [i \in 1..Len(wf.nodes) |-> wf.nodes[i].id]

PlanIdList(p) == [i \in 1..Len(p.nodes) |-> p.nodes[i].nodeId]

TargetsExist(wf) == \A i \in 1..Len(wf.edges) : wf.edges[i].target \in nodeIdsOf(wf.nodes)

EdgesInto(wf, id) == {i \in 1..Len(wf.edges) : wf.edges[i].target = id}

\* the plan position of the source of id that is planned last, 0 for a root:
\* the moment id's in-degree reaches zero and id enters the queue
EnqueuedAt(wf, p, id) ==
  IF EdgesInto(wf, id) = {} THEN 0
  ELSE CHOOSE m \in 1..Len(p.nodes) :
         /\ \E i \in EdgesInto(wf, id) : PlanIndex(p, wf.edges[i].source) = m
         /\ \A i \in EdgesInto(wf, id) : PlanIndex(p, wf.edges[i].source) <= m

\* the order among ids entering the queue at the same moment: node-array order
\* for roots, otherwise the order of the releasing edges in the edge array
EnqueuedRank(wf, p, id) ==
  IF EdgesInto(wf, id) = {} THEN IndexOf(NodeIdList(wf), id)
  ELSE CHOOSE i \in EdgesInto(wf, id) :
         /\ PlanIndex(p, wf.edges[i].source) = EnqueuedAt(wf, p, id)
         /\ \A j \in EdgesInto(wf, id) : PlanIndex(p, wf.edges[j].source) = EnqueuedAt(wf, p, id) => j <= i

FifoOrder(wf, p) ==
  \A i, j \in 1..Len(p.nodes) :
    i < j =>
      \/ EnqueuedAt(wf, p, p.nodes[i].nodeId) < EnqueuedAt(wf, p, p.nodes[j].nodeId)
      \/ /\ EnqueuedAt(wf, p, p.nodes[i].nodeId) = EnqueuedAt(wf, p, p.nodes[j].nodeId)
         /\ EnqueuedRank(wf, p, p.nodes[i].nodeId) < EnqueuedRank(wf, p, p.nodes[j].nodeId)

\* C17: the plan is the first-in-first-out order of Kahn's algorithm: roots come
\* first in node-array order, and every other node comes in the order in which
\* its last source was planned (nodes released by the same source in the order
\* of the releasing edges); for a graph with no edges the plan order is exactly
\* the node-array order.
C17_PlanIsFifoKahnOrder ==
  (planOut # <<>> /\ planOut[1].valid) =>
     /\ workflow.edges = <<>> => PlanIdList(planOut[1]) = NodeIdList(workflow)
     /\ (DistinctNodeIds(workflow) /\ SourcesExist(workflow) /\ TargetsExist(workflow)) =>
           FifoOrder(workflow, planOut[1])

\* a root with two branches whose edges are listed in the opposite order of the
\* nodes: the plan follows the queue, not the node array
C17_Witness ==
  /\ planOut # <<>>
  /\ planOut[1].valid
  /\ NodeIdList(workflow) = <<1, 2, 3>>
  /\ Len(workflow.edges) = 2
  /\ workflow.edges[1].source = 1 /\ workflow.edges[1].target = 3
  /\ workflow.edges[2].source = 1 /\ workflow.edges[2].target = 2
  /\ PlanIdList(planOut[1]) = <<1, 3, 2>>

\* ----------------------------------------------------------------- C18

DanglingEndpoints(wf) ==
  {<<i, "source">> : i \in {j \in 1..Len(wf.edges) : wf.edges[j].source \notin nodeIdsOf(wf.nodes)}}
  \cup {<<i, "target">> : i \in {j \in 1..Len(wf.edges) : wf.edges[j].target \notin nodeIdsOf(wf.nodes)}}

IsolatedNodes(wf) ==
  {i \in 1..Len(wf.nodes) :
     /\ Len(wf.nodes) > 1
     /\ \A j \in 1..Len(wf.edges) : wf.edges[j].source # wf.nodes[i].id /\ wf.edges[j].target # wf.nodes[i].id}

\* ordered pairs joined by more than one edge
ParallelPairs(wf) ==
  {<<wf.edges[i].source, wf.edges[i].target>> :
     i \in {k \in 1..Len(wf.edges) :
              \E j \in 1..Len(wf.edges) :
                 j # k /\ wf.edges[j].source = wf.edges[k].source /\ wf.edges[j].target = wf.edges[k].target}}

ErrorsOfKind(v, kinds) == SelectSeq(v.errors, LAMBDA e : e.kind \in kinds)

\* C18: validateWorkflowDAG returns valid=true exactly when the graph has no
\* cycle and every edge endpoint is an existing node id; there is one hard error
\* per dangling endpoint and one for a cycle, and one warning per isolated node
\* (only with more than one node) and per ordered pair joined by several edges;
\* warnings never change valid.
C18_ValidIffAcyclicAndNoDanglingEndpoint ==
  validationOut # <<>> =>
     /\ validationOut[1].valid <=> (~ContainsCycle(workflow) /\ DanglingEndpoints(workflow) = {})
     /\ validationOut[1].valid <=> validationOut[1].errors = <<>>
     /\ Len(ErrorsOfKind(validationOut[1], {"source", "target"})) = Cardinality(DanglingEndpoints(workflow))
     /\ \A d \in DanglingEndpoints(workflow) :
          \E k \in 1..Len(validationOut[1].errors) :
             validationOut[1].errors[k].kind = d[2] /\ validationOut[1].errors[k].edge = d[1]
     /\ Len(ErrorsOfKind(validationOut[1], {"cycle"})) <= 1
     /\ Len(validationOut[1].errors) =
          Len(ErrorsOfKind(validationOut[1], {"cycle"})) + Cardinality(DanglingEndpoints(workflow))
     /\ Len(validationOut[1].warnings) = Cardinality(IsolatedNodes(workflow)) + Cardinality(ParallelPairs(workflow))

\* a valid graph with warnings: an isolated node next to a doubled edge
C18_Witness ==
  /\ validationOut # <<>>
  /\ validationOut[1].valid
  /\ Len(validationOut[1].warnings) = 2
  /\ Cardinality(IsolatedNodes(workflow)) = 1
  /\ Cardinality(ParallelPairs(workflow)) = 1

\* ----------------------------------------------------------------- C19

\* C19: two WorkflowRunner instances constructed for the same workflow
\* definition always have different execution ids.
C19_ExecutionIdsDiffer ==
  \A i, j \in 1..Len(executionIds) : i # j => executionIds[i] # executionIds[j]

\* ----------------------------------------------------------------- C20

\* the node ids of the returned results, in the order run() returns them
ReturnedIds == [k \in 1..Len(ret[1].results) |-> ret[1].results[k].nodeId]

ReturnedPosition(nodeId) == CHOOSE k \in 1..Len(ReturnedIds) : ReturnedIds[k] = nodeId

\* exactly one RunResult per workflow node, in plan order, an edge's source
\* before its target
OneResultPerNodeInPlanOrder ==
  /\ Len(ReturnedIds) = Len(workflow.nodes)
  /\ \A n \in 1..Len(workflow.nodes) :
        Cardinality({k \in 1..Len(ReturnedIds) : ReturnedIds[k] = workflow.nodes[n].id}) = 1
  /\ ReturnedIds = PlanOrder
  /\ \A e \in 1..Len(workflow.edges) :
        ({workflow.edges[e].source, workflow.edges[e].target} \subseteq nodeIdsOf(workflow.nodes))
          => ReturnedPosition(workflow.edges[e].source) < ReturnedPosition(workflow.edges[e].target)

\* the listener threw while a failed event was delivered: the exception left
\* executeNode's catch block and reached run()'s catch block
ListenerThrewOnFailed == "failed" \in config.throwOn /\ EventNodes("failed") # <<>>

FailureRecorded == pc = "catch" /\ pc' \in {"loop", "runCatch"}

\* the thrown value is an Error whose code property is a string
HasOwnStringCode(e) == e.isError /\ e.hasCode /\ e.codeIsString

RecordedErrorCode(rs, nodeId) == resultsGet(rs, nodeId).error[1].code

\* the Error thrown by executeNode itself when the lookup finds no executor
ThrownForMissingExecutor(e) == e.isError /\ e.message.text = "No executor registered for node type: "

\* C21: a failed node's recorded error code is the thrown error's own code
\* field when that field is present and a string, and "EXECUTION_ERROR" in
\* every other case (no code, non-string code, non-Error thrown value, missing
\* executor, timeout).
C21_RecordedErrorCode ==
  [][FailureRecorded =>
       /\ resultsGet(results', context.nodeId).status = "error"
       /\ Len(resultsGet(results', context.nodeId).error) = 1
       /\ HasOwnStringCode(thrown[1]) => RecordedErrorCode(results', context.nodeId) = thrown[1].code
       /\ ~HasOwnStringCode(thrown[1]) => RecordedErrorCode(results', context.nodeId) = "EXECUTION_ERROR"
       /\ (ThrownForMissingExecutor(thrown[1]) \/ IsTimeoutMessage(thrown[1].message))
             => RecordedErrorCode(results', context.nodeId) = "EXECUTION_ERROR"]_vars

\* the first node failed with an Error carrying the code CUSTOM_ERROR, the
\* second one with a thrown non-Error object that has a code property
C21_Witness ==
  /\ pc = "returned"
  /\ plan[1].valid
  /\ Len(results) = 2
  /\ results[1].status = "error" /\ results[1].error[1].code = "CUSTOM_ERROR"
  /\ results[2].status = "error" /\ results[2].error[1].code = "EXECUTION_ERROR"
  /\ results[2].error[1].message = Msg("Unknown error")

\* ----------------------------------------------------------------- C22

HasOutput(r) == Len(r.output) = 1
HasError(r) == Len(r.error) = 1

\* C22: every RunResult in the WorkflowExecution returned by run() carries
\* exactly one of an output record or an error: a result with status success
\* has an output and no error, and a result with status error has an error
\* {message, code} and no output.
C22_ReturnedResultsCarryOutputXorError ==
  pc = "returned" =>
    \A k \in 1..Len(ret[1].results) :
       LET r == ret[1].results[k]
       IN /\ r.status \in {"success", "error"}
          /\ HasOutput(r) # HasError(r)
          /\ r.status = "success" => (HasOutput(r) /\ ~HasError(r))
          /\ r.status = "error" =>
                (HasError(r) /\ ~HasOutput(r) /\ {"message", "code"} \subseteq DOMAIN r.error[1])

\* run() returned the error result of a node whose success result (with its
\* output) had been recorded before the listener threw on the succeeded event
C22_Witness ==
  /\ pc = "returned"
  /\ plan[1].valid
  /\ Len(ret[1].results) >= 1
  /\ ret[1].results[1].nodeId # RunnerNodeId
  /\ ret[1].results[1].status = "error"
  /\ HasError(ret[1].results[1]) /\ ~HasOutput(ret[1].results[1])
  /\ \E c \in 1..Len(completedNodes) : completedNodes[c].nodeId = ret[1].results[1].nodeId

\* ----------------------------------------------------------------- C23

StatusIn(rs, nodeId) == resultsGet(rs, nodeId).status

\* run() has just established a valid plan
PlanEstablished == plan = <<>> /\ plan' # <<>> /\ plan'[1].valid

\* the only moves of a RunResult: pending -> running -> success or error
AllowedMove(a, b) ==
  \/ a = "pending" /\ b = "running"
  \/ a = "running" /\ b \in {"success", "error"}

\* one step of the run seen from the RunResults
ResultLifecycleStep ==
  /\ PlanEstablished =>
       /\ [k \in 1..Len(results') |-> results'[k].nodeId] = PlanIdList(plan'[1])
       /\ \A k \in 1..Len(results') : results'[k].status = "pending"
  /\ \A k \in 1..Len(results) :
       /\ resultsHas(results', results[k].nodeId)
       /\ StatusIn(results', results[k].nodeId) # results[k].status
             => AllowedMove(results[k].status, StatusIn(results', results[k].nodeId))
       /\ Terminal(results[k].status) => resultsGet(results', results[k].nodeId) = results[k]
  /\ \A k \in 1..Len(results') : results'[k].status \in {"pending", "running", "success", "error"}
  /\ (pc' = "returned" /\ plan'[1].valid) =>
       \A k \in 1..Len(ret'[1].results) : ret'[1].results[k].status \notin {"pending", "running", "cancelled"}

\* C23: within a run each planned node's RunResult is created as pending when
\* the plan is established and then moves only pending -> running -> success
\* or error; once terminal it is never changed again in that run, the status
\* cancelled is never produced, and when run() returns with a valid plan no
\* returned RunResult is pending or running.
C23_ResultLifecycle == [][ResultLifecycleStep]_vars

\* ----------------------------------------------------------------- C24

\* nodes for which executeNode got as far as its first statement in the try block
AttemptedNodes == EventNodes("queued")

\* C24: if an exception escapes the per-node handling (the event listener
\* throws while the failed event is being delivered), run() still resolves: it
\* returns overall status error with a results list of exactly one synthetic
\* RunResult with nodeId 'runner' and code RUNNER_ERROR, and no planned node
\* after the failed one is attempted.
C24_EscapedExceptionGivesRunnerError ==
  /\ pc = "runCatch" => (ListenerThrewOnFailed /\ ENABLED RunCatch)
  /\ (pc = "returned" /\ plan[1].valid /\ ListenerThrewOnFailed) =>
        /\ ~escaped
        /\ Len(ret) = 1
        /\ ret[1].status = "error"
        /\ Len(ret[1].results) = 1
        /\ ret[1].results[1].nodeId = RunnerNodeId
        /\ ret[1].results[1].status = "error"
        /\ ret[1].results[1].error[1].code = "RUNNER_ERROR"
        /\ events[Len(events)].status = "failed"
        /\ Len(EventNodes("failed")) = 1
        /\ IsPrefix(AttemptedNodes, PlanOrder)
        /\ AttemptedNodes[Len(AttemptedNodes)] = events[Len(events)].nodeId
        /\ \A k \in 1..Len(PlanOrder) :
              k > Len(AttemptedNodes) => StatusIn(results, PlanOrder[k]) = "pending"

\* the listener threw on the failed event of the first of two planned nodes:
\* run() returned the runner result and the second node was never queued
C24_Witness ==
  /\ pc = "returned"
  /\ plan[1].valid
  /\ Len(PlanOrder) = 2
  /\ ListenerThrewOnFailed
  /\ "queued" \notin config.throwOn
  /\ AttemptedNodes = <<PlanOrder[1]>>
  /\ StatusIn(results, PlanOrder[2]) = "pending"
  /\ Len(ret[1].results) = 1
  /\ ret[1].results[1].error[1].code = "RUNNER_ERROR"

\* ----------------------------------------------------------------- C25

\* topologicalSort applied to the drawn graph returned null
SortReturnedNull == topologicalSort(workflow.nodes, workflow.edges).isNull

\* planning failed with the 'Failed to topologically sort' error
PlanningFailedToSort == ~planOut[1].valid /\ planOut[1].errors = <<TopoSortError>>

\* C25 as stated: topologicalSort returns null, and planning fails with the
\* 'Failed to topologically sort' error, only when the graph contains a cycle.
C25_SortNullOnlyWhenCyclic ==
  planOut # <<>> =>
     /\ SortReturnedNull => ContainsCycle(workflow)
     /\ PlanningFailedToSort => ContainsCycle(workflow)

\* C25 amended: for a graph with distinct node ids whose edge sources are all
\* nodes, topologicalSort returns null only when the graph contains a cycle,
\* and planning then fails with the cycle error; the 'Failed to topologically
\* sort' error arises only when topologicalSort returned null for a graph with
\* duplicate node ids or with an edge whose source is no node.
C25_SortNullOnlyWhenCyclicOrMalformed ==
  planOut # <<>> =>
     /\ (SortReturnedNull /\ DistinctNodeIds(workflow) /\ SourcesExist(workflow)) =>
           /\ ContainsCycle(workflow)
           /\ ~planOut[1].valid
           /\ Len(planOut[1].errors) = 1
           /\ planOut[1].errors[1].text = "Workflow contains a cycle: "
     /\ PlanningFailedToSort =>
           /\ SortReturnedNull
           /\ ~DistinctNodeIds(workflow) \/ ~SourcesExist(workflow)

\* a well-formed graph with a cycle through two of its three nodes was planned:
\* the sort is null and the plan carries the cycle error
C25_Witness ==
  /\ planOut # <<>>
  /\ DistinctNodeIds(workflow) /\ SourcesExist(workflow)
  /\ Len(workflow.nodes) = 3
  /\ SortReturnedNull
  /\ ContainsCycle(workflow)
  /\ ~planOut[1].valid
  /\ planOut[1].errors # <<TopoSortError>>

\* ----------------------------------------------------------------- C26

IsEdge(wf, x, y) == \E i \in 1..Len(wf.edges) : wf.edges[i].source = x /\ wf.edges[i].target = y

\* a closed walk x1 -> ... -> xk -> x1 along edges that repeats no node but x1
IsSimpleClosedWalk(wf, c) ==
  /\ Len(c) >= 2
  /\ c[1] = c[Len(c)]
  /\ \A i \in 1..(Len(c) - 1) : IsEdge(wf, c[i], c[i + 1])
  /\ \A i, j \in 1..(Len(c) - 1) : c[i] = c[j] => i = j

\* C26: when checkForCycles reports hasCycle=true, the reported cycle is the
\* slice of the DFS path from the repeated node's first occurrence to its
\* recurrence: a non-empty sequence whose first and last elements are the same
\* node id, in which every consecutive pair (x, y) is an edge x->y of the
\* graph (and, being a slice of the DFS path, no other id occurs twice).
C26_ReportedCycleIsClosedWalk ==
  (cyclesOut # <<>> /\ cyclesOut[1].hasCycle) => IsSimpleClosedWalk(workflow, cyclesOut[1].cycle)

\* a cycle found below the DFS root: the path 1, 2 with the self-loop at 2 is
\* reported as 2, 2
C26_Witness ==
  /\ cyclesOut # <<>>
  /\ cyclesOut[1].hasCycle
  /\ Len(cyclesOut[1].cycle) = 2
  /\ cyclesOut[1].cycle[1] # workflow.nodes[1].id
  /\ IsEdge(workflow, workflow.nodes[1].id, cyclesOut[1].cycle[1])

\* ----------------------------------------------------------------- C27

\* source ids of the edges that target an id
SourcesInto(wf, id) == {wf.edges[i].source : i \in {j \in 1..Len(wf.edges) : wf.edges[j].target = id}}

\* position in the edge array of the first edge src -> id
FirstEdgeFrom(wf, src, id) ==
  CHOOSE i \in 1..Len(wf.edges) :
    /\ wf.edges[i].source = src /\ wf.edges[i].target = id
    /\ \A j \in 1..(i - 1) : ~(wf.edges[j].source = src /\ wf.edges[j].target = id)

\* C27: in a valid plan each ExecutionContext's dependencies list is exactly the
\* set of source ids of edges targeting that node, without duplicates (parallel
\* edges from the same source count once), in order of first appearance in the
\* edge array, and is empty for a node with no incoming edge.
C27_DependenciesAreDeduplicatedSources ==
  (planOut # <<>> /\ planOut[1].valid) =>
     \A k \in 1..Len(planOut[1].nodes) :
        LET id == planOut[1].nodes[k].nodeId
            deps == planOut[1].nodes[k].dependencies
        IN /\ {deps[i] : i \in 1..Len(deps)} = SourcesInto(workflow, id)
           /\ \A i, j \in 1..Len(deps) : deps[i] = deps[j] => i = j
           /\ \A i, j \in 1..Len(deps) :
                 i < j => FirstEdgeFrom(workflow, deps[i], id) < FirstEdgeFrom(workflow, deps[j], id)
           /\ SourcesInto(workflow, id) = {} => deps = <<>>

\* a valid plan for a node with two parallel incoming edges and a node with none
C27_Witness ==
  /\ planOut # <<>>
  /\ planOut[1].valid
  /\ Len(planOut[1].nodes) >= 2
  /\ planOut[1].nodes[1].dependencies = <<>>
  /\ \E k \in 1..Len(planOut[1].nodes) :
        /\ Len(planOut[1].nodes[k].dependencies) = 1
        /\ Cardinality({i \in 1..Len(workflow.edges) :
                          workflow.edges[i].target = planOut[1].nodes[k].nodeId}) = 2

\* ----------------------------------------------------------------- C28

\* the planned context of a node id in a runner's plan
ContextOf(r, nodeId) == r.plan[1].nodes[CHOOSE i \in 1..Len(r.plan[1].nodes) : r.plan[1].nodes[i].nodeId = nodeId]

EventsFor(r, nodeId, status) ==
  {k \in 1..Len(r.events) : r.events[k].nodeId = nodeId /\ r.events[k].status = status}

\* the RunResults, completed outputs and logs of a runner are accounted for by
\* that runner's own history: every completed output is the output of one of
\* its own executor calls, every executor call read only its own completed
\* outputs, a result has left pending only after its own queued event, and a
\* log line follows one of its own failed events
OwnsItsState(r) ==
  /\ Len(r.completedNodes) <= Len(r.invoked)
  /\ \A c \in 1..Len(r.completedNodes) :
        /\ EventsFor(r, r.completedNodes[c].nodeId, "succeeded") # {}
        /\ \E k \in 1..Len(r.invoked) :
              /\ r.invoked[k].nodeId = r.completedNodes[c].nodeId
              /\ r.completedNodes[c].output = textExecutorOutput(r.invoked[k].nodeId, r.invoked[k].inputs)
  /\ \A k \in 1..Len(r.invoked) :
        r.invoked[k].inputs =
          resolveNodeInputs(ContextOf(r, r.invoked[k].nodeId), r.completedNodes, workflow.edges, workflow.ports)
  /\ \A k \in 1..Len(r.results) :
        /\ r.results[k].status # "pending" => EventsFor(r, r.results[k].nodeId, "queued") # {}
        /\ r.results[k].status = "success" =>
              \E c \in 1..Len(r.completedNodes) : r.completedNodes[c].nodeId = r.results[k].nodeId
  /\ \A id \in Ids :
        Len(r.logs[id]) = IF "failed" \in config.throwOn THEN 0 ELSE Cardinality(EventsFor(r, id, "failed"))

\* a step of the runner that owns the thread, or a registerNode call, leaves
\* the other runner's fields alone; a yield hands the thread over and changes
\* no field of either runner and nothing in the registry
OtherRunnerUntouched ==
  /\ active' = active => peer' = peer
  /\ active' # active => (peer' = thisRunner /\ thisRunner' = peer /\ nodeRegistry' = nodeRegistry)
  /\ registerCalls' # registerCalls => thisRunner' = thisRunner

\* executeNode's getNodeExecutor call of the runner that owns the thread
ExecutorLookup == pc = "running" /\ pc' \in {"await", "catch"}

\* the lookup yields the executor of the latest registerNode call for the type
LookupSeesLatestRegistration ==
  ExecutorLookup =>
    IF LastRegistered(context.node.type) = NoExecutor
    THEN pc' = "catch" /\ ThrownForMissingExecutor(thrown'[1])
    ELSE pc' = "await" /\ invoked'[Len(invoked')].executor = LastRegistered(context.node.type)

\* C28: shared mutable state is confined to the executor registry: when the
\* runs of two distinct WorkflowRunner instances interleave at their await
\* points, neither reads or writes the other's RunResults, completed outputs
\* or logs, while a registerNode performed at any point is observed by every
\* later executor lookup of both runs.
C28_OnlyTheRegistryIsShared ==
  /\ [](OwnsItsState(thisRunner) /\ OwnsItsState(peer))
  /\ [][OtherRunnerUntouched /\ LookupSeesLatestRegistration]_vars

\* both runs are suspended at their executor await, one at its second node and
\* the other at its first, and each looked up the executor that was registered
\* for the type after the module was loaded
C28_Witness ==
  /\ pc = "await" /\ peer.pc = "await"
  /\ Len(registerCalls) = 2
  /\ registerCalls[2].executor # TextExecutor
  /\ Len(completedNodes) = 1 /\ peer.completedNodes = <<>>
  /\ invoked[Len(invoked)].executor = registerCalls[2].executor
  /\ peer.invoked[Len(peer.invoked)].executor = registerCalls[2].executor
  /\ results # peer.results

\* ----------------------------------------------------------------- C29

\* C29: the builder keeps the workflow acyclic: after any sequence of builder
\* actions (addNode, removeNode, addEdge, removeEdge, updateEdge, removePort,
\* deleteSelected, several of them possibly issued before the next render) the
\* builder's edges contain no cycle.
C29_BuilderEdgesAcyclic ==
  /\ ~ContainsCycle([nodes |-> builder.nodes, edges |-> builder.edges])
  /\ ~ContainsCycle([nodes |-> rendered.nodes, edges |-> rendered.edges])

\* ----------------------------------------------------------------- C30

\* nothing is left to happen without a further builder action: the latest
\* state is rendered and no timer is pending
Settled == rendered = builder /\ ~depsChanged /\ timers = {}

\* C30: builder auto-save: whenever the state is dirty and a workflow is
\* loaded and no further modification occurs, the auto-save timer fires,
\* saveWorkflow is called with the current nodes, edges and ports and isDirty
\* becomes false (so once nothing is left to happen, a loaded workflow is not
\* dirty and what was saved last is its current content); a modification made
\* before the timer fires cancels the pending timer and starts a new one (so a
\* timer that fires saves the current content), and at most one auto-save
\* timer is pending at a time.
C30_AutoSaveSavesCurrentState ==
  /\ [](Cardinality(timers) <= 1)
  /\ []((Settled /\ builder.loaded) => (~builder.isDirty /\ saved = <<Content(builder)>>))
  /\ [][(timers' # timers /\ saved' # saved) =>
          (saved' = <<Content(builder)>> /\ ~builder'.isDirty)]_vars

\* ----------------------------------------------------------------- C31

\* C31: storage round trip: after saveWorkflow(w) of a workflow the schema
\* guard accepts, loadWorkflow(w.metadata.id) returns a workflow equal to w,
\* for every workflow id, until that id is deleted, cleared or saved again.
C31_LoadReturnsLastSaved ==
  \A id \in DOMAIN lastSaved : loadWorkflow(storage, id) = <<lastSaved[id]>>

\* ----------------------------------------------------------------- C39

\* C39: after any sequence of saveWorkflow, deleteWorkflow and
\* clearAllWorkflows calls the index and the stored workflows agree: the ids
\* listWorkflows returns are exactly the ids loadWorkflow returns a workflow
\* for, and the index entry of each such id is the metadata of its latest save.
C39_IndexAgreesWithStoredWorkflows ==
  /\ listWorkflowIds(storage) = {id \in WorkflowIds : loadWorkflow(storage, id) # <<>>}
  /\ \A id \in DOMAIN lastSaved :
       /\ id \in DOMAIN getWorkflowIndex(storage)
       /\ getWorkflowIndex(storage)[id] = lastSaved[id].metadata

\* ----------------------------------------------------------------- C32

\* the recorded outputs of the nodes whose RunResult is success
OutputsOfSuccessfulNodes ==
  SelectSeq(completedNodes, LAMBDA n : resultsGet(results, n.nodeId).status = "success")

\* C32: at every point of a run, for every listener, a node's output is among
\* the runner's completed outputs only if the node's RunResult is success, and
\* the inputs every executor was called with are resolved from the outputs of
\* successful nodes alone: a node whose RunResult is error contributes nothing.
C32_OnlySuccessfulNodesFeedDownstream ==
  /\ \A i \in 1..Len(completedNodes) :
       resultsGet(results, completedNodes[i].nodeId).status = "success"
  /\ \A j \in 1..Len(invoked) :
       invoked[j].inputs = resolveNodeInputs([nodeId |-> invoked[j].nodeId], OutputsOfSuccessfulNodes,
                                             workflow.edges, workflow.ports)

\* ----------------------------------------------------------------- C33

\* the outputs recorded since the current call of run() began
RecordedThisInvocation == SubSeq(completedNodes, invocation.completedBefore + 1, Len(completedNodes))

\* C33: when run() is invoked more than once on one WorkflowRunner, every
\* executor call of an invocation gets inputs resolved only from the outputs
\* recorded during that invocation: an output of an earlier invocation is
\* never used, in particular not for a source that failed this time.
C33_InputsComeFromThisInvocation ==
  \A j \in (invocation.invokedBefore + 1)..Len(invoked) :
    invoked[j].inputs = resolveNodeInputs([nodeId |-> invoked[j].nodeId], RecordedThisInvocation,
                                          workflow.edges, workflow.ports)

\* ----------------------------------------------------------------- C34

\* distinct node ids, and both endpoints of every edge are nodes
WellFormedGraph(wf) == DistinctNodeIds(wf) /\ DanglingEndpoints(wf) = {}

\* C34: for every graph with distinct node ids whose edges all reference
\* existing nodes, detectCycle is true exactly when topologicalSort returns
\* null, and buildExecutionPlan never fails with the 'Failed to topologically
\* sort' error.
C34_DetectCycleAgreesWithSort ==
  WellFormedGraph(workflow) =>
     /\ detectCycle(workflow.nodes, workflow.edges) = SortReturnedNull
     /\ planOut # <<>> => ~PlanningFailedToSort

\* a well-formed graph whose cycle cannot be reached from its first node was
\* planned: both checks see the cycle and the plan carries the cycle error
C34_Witness ==
  /\ planOut # <<>>
  /\ WellFormedGraph(workflow)
  /\ Len(workflow.nodes) = 3
  /\ ~OnCycle(workflow.edges, workflow.nodes[1].id)
  /\ detectCycle(workflow.nodes, workflow.edges)
  /\ SortReturnedNull
  /\ ~planOut[1].valid
  /\ ~PlanningFailedToSort

\* ----------------------------------------------------------------- C35

\* the plan lists every node of the workflow exactly once and nothing else
PlanIsPermutationOfNodes(p, wf) ==
  /\ Len(p.nodes) = Len(wf.nodes)
  /\ \A i \in 1..Len(wf.nodes) :
       \E j \in 1..Len(p.nodes) :
          /\ p.nodes[j].nodeId = wf.nodes[i].id
          /\ p.nodes[j].node = wf.nodes[i]
          /\ \A k \in 1..Len(p.nodes) : p.nodes[k].nodeId = wf.nodes[i].id => k = j

\* C35: for a workflow with distinct node ids, whenever buildExecutionPlan
\* returns valid=true its plan.nodes is a permutation of the workflow's node
\* list, also when some edge references a node id that does not exist.
C35_ValidPlanIsPermutationOfNodes ==
  (planOut # <<>> /\ DistinctNodeIds(workflow) /\ planOut[1].valid) =>
     PlanIsPermutationOfNodes(planOut[1], workflow)

\* a valid plan of two nodes whose workflow has an edge between them and an
\* edge to an id that is no node
C35_Witness ==
  /\ planOut # <<>>
  /\ DistinctNodeIds(workflow)
  /\ planOut[1].valid
  /\ Len(workflow.nodes) = 2
  /\ Len(workflow.edges) = 2
  /\ DanglingEndpoints(workflow) # {}
  /\ \E i \in 1..2 : workflow.edges[i].source \in nodeIdsOf(workflow.nodes)
                       /\ workflow.edges[i].target \in nodeIdsOf(workflow.nodes)
  /\ PlanIsPermutationOfNodes(planOut[1], workflow)

\* ----------------------------------------------------------------- C36

BuilderNodeIds(state) == {state.nodes[i].id : i \in 1..Len(state.nodes)}
BuilderEdgeIds(state) == {state.edges[i].id : i \in 1..Len(state.edges)}

\* C36: after any sequence of addNode, removeNode, addEdge, removeEdge,
\* removePort and deleteSelected calls (several of them before the next render
\* included), every edge of the builder state has a source and a target that
\* are ids of nodes of the builder state.
C36_BuilderEdgesJoinExistingNodes ==
  \A i \in 1..Len(builder.edges) :
     /\ builder.edges[i].source \in BuilderNodeIds(builder)
     /\ builder.edges[i].target \in BuilderNodeIds(builder)

\* ----------------------------------------------------------------- C37

HasPair(edges, source, target) ==
  \E i \in 1..Len(edges) : edges[i].source = source /\ edges[i].target = target

\* the step is an addEdge call
AddEdgeCalled == addEdgeOut' # addEdgeOut

\* what C37 requires of an addEdge call, judged on the builder state it is made in
AddEdgeFrame ==
  LET call == addEdgeOut'[1]
      edge == BuilderEdge(nextId.edge, call.source, call.target, 0, 0)
  IN IF \/ HasPair(builder.edges, call.source, call.target)
        \/ ~validateWorkflowDAG(builder.nodes, Append(builder.edges, edge)).valid
     THEN call.returned = <<>> /\ builder' = builder
     ELSE /\ call.returned # <<>>
          /\ builder' = [builder EXCEPT !.edges = Append(@, call.returned[1]), !.isDirty = TRUE]

\* C37: addEdge(source, target) returns null and leaves nodes, edges, ports,
\* selection and isDirty unchanged when an edge with the same ordered pair
\* already exists or when adding the edge would make validateWorkflowDAG
\* invalid; otherwise it appends exactly one edge and sets isDirty.
C37_AddEdgeFrame == [][AddEdgeCalled => AddEdgeFrame]_vars

\* ----------------------------------------------------------------- C38

\* C38: after any sequence of builder actions the selection refers to existing
\* items only: selectedNodeIds holds ids of the builder's nodes and
\* selectedEdgeIds ids of the builder's edges.
C38_SelectionRefersToExistingItems ==
  /\ builder.selectedNodeIds \subseteq BuilderNodeIds(builder)
  /\ builder.selectedEdgeIds \subseteq BuilderEdgeIds(builder)

\* ----------------------------------------------------------------- C40

\* C40: for any sequence of checkRateLimit calls, at most
\* RATE_LIMIT_MAX_REQUESTS calls of one identifier are allowed within one window
\* of RATE_LIMIT_WINDOW ms starting at that identifier's first allowed call; a
\* rejected call does not change the counter, the first call after the window
\* expires is allowed and restarts the window with count 1, and the counters of
\* different identifiers are independent: every identifier that was allowed a
\* call has its own counter, which equals the number of its calls allowed in
\* its current window and never exceeds the limit.
C40_AtMostMaxRequestsPerWindow ==
  /\ DOMAIN rateLimitStore = DOMAIN rateWindow
  /\ \A id \in DOMAIN rateWindow :
       /\ rateWindow[id].allowed <= RATE_LIMIT_MAX_REQUESTS
       /\ rateLimitStore[id] = [count |-> rateWindow[id].allowed,
                                resetTime |-> rateWindow[id].start + RATE_LIMIT_WINDOW]

====
